---------------------------- MODULE Spec2Model ----------------------------
(***************************************************************************)
(* Order-processing core of the Telegram mini-shop bot                     *)
(* (src/telegram_shop_bot_main.py): carts, the checkout dialogue, the      *)
(* mini-app checkout, courier assignment, settlement (mark_order_delivered)*)
(* and the treasury ledger.                                                *)
(*                                                                         *)
(* Money is counted in whole euros (the code uses floats; every formula    *)
(* below is the code's formula on the same operands).  An optional value   *)
(* (Python None / SQL NULL) is the empty tuple, a present value x is <<x>>.*)
(***************************************************************************)
EXTENDS Integers, Sequences, FiniteSets, TLC

\* ------------------------------------------------------------------ bounds
\* cb_addcart adds one unit per click: a cart line holds at most MaxQty units.
MaxQty == 1
\* The treasury is append-only: settlements stop once it holds MaxTreasury rows.
MaxTreasury == 2

\* At most MaxTasks handlers are suspended at an await at a time.
MaxTasks == 2

\* /set_fees payloads hold at most MaxTiers tiers.
MaxTiers == 2

\* add_product draws a new id each time it runs: it runs until the sequence of
\* table products stands at MaxProductSeq.
MaxProductSeq == 5

\* ------------------------------------------------------- program constants
OWNER_ID == 1
MILLAU_CITY == "Millau"
DEFAULT_TIERED_FEES == <<[max_km |-> 20, fee |-> 20], [max_km |-> 30, fee |-> 30], [max_km |-> 50, fee |-> 50]>>
GLOBAL_DISCOUNT_ACTIVE == FALSE
GLOBAL_DISCOUNT_EUR == 10
PROMO_CODE == "TRESORERIE10"
\* the literal 10.0 added for a matching promo code, and for the loyalty rule
PROMO_BONUS == 10
LOYALTY_EVERY == 10
\* COURIER_CHANNEL_ID = int(os.getenv("COURIER_CHANNEL_ID", "0")): NoChannel is the
\* default (no channel configured), CourierChannel the id of a configured channel
NoChannel == 0
CourierChannel == 7

\* the tiers a /set_fees payload is made of
TierChoices == {[max_km |-> 20, fee |-> 20], [max_km |-> 20, fee |-> 30],
                [max_km |-> 30, fee |-> 20], [max_km |-> 30, fee |-> 30]}
\* the cities and distances (tenths of a kilometre) fees are computed for
FeeCities == {"Paris", "Millau", " millau ", "MILLAU"}
FeeDistances == {0, 150, 200, 250, 420, 510}
\* per_km values a stored schedule may hold
PerKmValues == {0, 2}

\* what the customer types in the chat checkout when every prompt is exercised:
\* a blank text at the address and city prompts, a decimal comma and the empty
\* text at the distance prompt
DialogueAddresses == {"12 rue Droite", "  "}
DialogueCities == {"Paris", "  "}
DialogueDistances == {"15", "20,5", "abc", ""}
DialoguePromos == {"non"}

\* Python None / SQL NULL, and a present value
None == <<>>
Some(x) == <<x>>

\* ------------------------------------------------------------ input domains
Users == {1, 2}
\* the chats updates come from: a user's private chat has the user's id, and a
\* group chat the bot was added to
GroupChat == 9
Chats == Users \cup {GroupChat}
PrivateChat(u) == u
\* the users who shop; the owner (user 1) only administers
Customers == {2}
\* the roles the owner hands out with /set_role
Roles == {"customer", "staff"}
\* the ids of the products on_startup() seeds
ProductIds == {1, 2, 3}
\* the products the catalogue buttons of the customers add to a cart
CartProducts == {1}
Codes == {"CMD-A", "CMD-B"}
Couriers == {2}
Addresses == {"12 rue Droite"}
Cities == {"Paris"}
\* what the customer types at the distance prompt: numbers, and a non-number
DistanceTexts == {"15", "51", "abc"}
PromoTexts == {"non", "tresorerie10"}
\* item lists a mini-app payload can carry (the client chooses ids, prices and
\* quantities): a list of [product, qty] arrays, written [e1 |-> product, e2 |-> qty],
\* and a list of objects
WebappItems == {<<[e1 |-> [id |-> 2, name |-> "Pack 6x0.5L", price |-> 7], e2 |-> 2]>>,
                <<[id |-> 2, name |-> "Pack 6x0.5L", price |-> 7, qty |-> 2]>>}
\* m.text of the message that carries the payload: a web_app_data message is a
\* service message, it has no text
WebappTexts == {None}
\* the distances (tenths of a kilometre) a mini-app payload can carry
WebappDistances == {150, 510}
\* the stock an admin sets while settlements run
StockValues == {1}
\* the products whose stock the admin edits
EditProducts == {1}

Max(a, b) == IF a >= b THEN a ELSE b

VARIABLES
    users,      \* table users: user_id -> role
    products,   \* table products: id -> [name, price, stock, is_active]
    product_seq, \* sqlite_sequence of table products: the last AUTOINCREMENT id drawn
    carts,      \* table carts: user_id -> product_id -> qty (0: no row)
    orders,     \* table orders: rows in id order (id = position)
    treasury,   \* table treasury: rows in id order
    fees,       \* settings['fees']: the tier list
    fsm,        \* aiogram FSM storage: (chat, user) -> [state, data]
    conns,      \* settlement calls in progress, each on its own connection
    tasks,      \* handlers suspended at an await: [chat, user, code], edits with n
    notified,   \* the courier channel: the codes of the orders announced in it
    last        \* the last handler that ran and what it answered

vars == <<users, products, product_seq, carts, orders, treasury, fees, fsm, conns, tasks, notified, last>>

\* ------------------------------------------------------------ text helpers
\* str.strip(), str.upper() and str.lower() on the texts of the input domains.
StrStrip(s) ==
    CASE s = " TRESORERIE10 " -> "TRESORERIE10"
      [] s = " millau " -> "millau"
      [] s = "  " -> ""
      [] OTHER -> s

StrUpper(s) ==
    CASE s = "non" -> "NON"
      [] s = "tresorerie10" -> "TRESORERIE10"
      [] OTHER -> s

\* a comparison that keeps the case
StrKeepCase(s) == s

StrLower(s) ==
    CASE s = "Millau" -> "millau"
      [] s = "MILLAU" -> "millau"
      [] s = "Paris" -> "paris"
      [] OTHER -> s

\* the parse without text.replace(",", "."): a decimal comma makes float() raise
ParseDistanceNoComma(text) ==
    CASE text = "15" -> <<150>>
      [] text = "51" -> <<510>>
      [] text = "20" -> <<200>>
      [] text = "25" -> <<250>>
      [] text = " 15 " -> <<150>>
      [] OTHER -> <<>>

\* float(text.replace(",", ".").strip()), in tenths of a kilometre; None when
\* float() raises.
ParseDistance(text) ==
    CASE text = "15" -> Some(150)
      [] text = "51" -> Some(510)
      [] text = "20" -> Some(200)
      [] text = "25" -> Some(250)
      [] text = "20,5" -> Some(205)
      [] text = " 15 " -> Some(150)
      [] OTHER -> None

\* ------------------------------------------------------------------- roles
is_owner(user_id) == user_id = OWNER_ID

get_role(user_id) == IF user_id = OWNER_ID THEN "admin" ELSE users[user_id]

is_admin(user_id) == get_role(user_id) = "admin" \/ is_owner(user_id)

is_staff(user_id) == get_role(user_id) \in {"staff", "admin"} \/ is_owner(user_id)

\* -------------------------------------------------------------------- cart
add_to_cart(user_id, product_id, qty) ==
    [carts EXCEPT ![user_id][product_id] = @ + qty]

RECURSIVE CartFrom(_, _)
CartFrom(user_id, pid) ==
    IF pid \notin ProductIds THEN <<>>
    ELSE (IF carts[user_id][pid] > 0
          THEN <<[id |-> pid, name |-> products[pid].name,
                  price |-> products[pid].price, qty |-> carts[user_id][pid]]>>
          ELSE <<>>) \o CartFrom(user_id, pid + 1)

\* the cart rows of the user joined with products, as snapshot lines
get_cart(user_id) == CartFrom(user_id, 1)

\* DELETE FROM carts without its WHERE clause: every cart is emptied
ClearEveryCart(user_id) == [v \in DOMAIN carts |-> [p \in ProductIds |-> 0]]

clear_cart(user_id) == [carts EXCEPT ![user_id] = [p \in ProductIds |-> 0]]

\* -------------------------------------------------------------------- fees
\* the scan with a strict comparison: a distance on a tier's bound moves up a tier
RECURSIVE TierScanStrict(_, _, _)
TierScanStrict(tiers, distance, i) ==
    IF i > Len(tiers) THEN [ok |-> FALSE, fee |-> 0]
    ELSE IF distance < 10 * tiers[i].max_km THEN [ok |-> TRUE, fee |-> tiers[i].fee]
    ELSE TierScanStrict(tiers, distance, i + 1)

\* the scan that charges the last tier's fee beyond the last bound
RECURSIVE TierScanLastTier(_, _, _)
TierScanLastTier(tiers, distance, i) ==
    IF i > Len(tiers) THEN [ok |-> tiers # <<>>, fee |-> IF tiers = <<>> THEN 0 ELSE tiers[Len(tiers)].fee]
    ELSE IF distance <= 10 * tiers[i].max_km THEN [ok |-> TRUE, fee |-> tiers[i].fee]
    ELSE TierScanLastTier(tiers, distance, i + 1)

RECURSIVE TierScan(_, _, _)
TierScan(tiers, distance, i) ==
    IF i > Len(tiers) THEN [ok |-> FALSE, fee |-> 0]
    ELSE IF distance <= 10 * tiers[i].max_km THEN [ok |-> TRUE, fee |-> tiers[i].fee]
    ELSE TierScan(tiers, distance, i + 1)

\* get_fees(): the stored schedule
get_fees == fees

\* set_fees(tiers, per_km): the schedule it stores
set_fees(tiers, per_km) == [tiers |-> tiers, per_km |-> per_km]

\* compute_delivery_fee on the schedule f.  ok = FALSE stands for the ValueError
\* (zone not covered); distance in tenths of km
DeliveryFee(f, city, distance) ==
    IF StrLower(StrStrip(city)) = StrLower(MILLAU_CITY)
    THEN [ok |-> TRUE, fee |-> 0]
    ELSE TierScan(f.tiers, distance, 1)

compute_delivery_fee(city, distance) == DeliveryFee(get_fees, city, distance)

\* tiers.sort(key=lambda x: x[0]): a stable sort on max_km
RECURSIVE InsertTier(_, _)
InsertTier(t, sorted) ==
    IF sorted = <<>> THEN <<t>>
    ELSE IF Head(sorted).max_km <= t.max_km THEN <<Head(sorted)>> \o InsertTier(t, Tail(sorted))
    ELSE <<t>> \o sorted

RECURSIVE SortTiers(_)
SortTiers(tiers) ==
    IF tiers = <<>> THEN <<>>
    ELSE InsertTier(tiers[Len(tiers)], SortTiers(SubSeq(tiers, 1, Len(tiers) - 1)))

\* ---------------------------------------------------------------- checkout
RECURSIVE SumLines(_)
SumLines(items) ==
    IF items = <<>> THEN 0
    ELSE Head(items).price * Head(items).qty + SumLines(Tail(items))

\* a commit that does not look at the stock (the mini-app handler has no such check)
FirstShortUnchecked(items) == None

\* the first cart line whose product has less stock than the line asks for
RECURSIVE FirstShort(_)
FirstShort(items) ==
    IF items = <<>> THEN None
    ELSE IF products[Head(items).id].stock < Head(items).qty THEN Some(Head(items).id)
    ELSE FirstShort(Tail(items))

\* the total without the clamp at zero
OrderTotalNoClamp(subtotal, discount, delivery_fee) == subtotal - discount + delivery_fee

\* the shape of a line of a mini-app payload or of a stored snapshot: a
\* [product, qty] array, or an object with the keys id, name, price, qty
IsPair(it) == DOMAIN it = {"e1", "e2"}
IsDict(it) == DOMAIN it = {"id", "name", "price", "qty"}

\* sum(p["price"] * qty for p, qty in items): the unpacking raises on a line
\* that is not a two-element array
PairsOnly(items) == \A k \in 1..Len(items) : IsPair(items[k])

RECURSIVE SumPairs(_)
SumPairs(items) ==
    IF items = <<>> THEN 0
    ELSE Head(items).e1.price * Head(items).e2 + SumPairs(Tail(items))

\* total = max(0.0, subtotal - discount) + delivery_fee
OrderTotal(subtotal, discount, delivery_fee) == Max(0, subtotal - discount) + delivery_fee

NoData == [address |-> None, city |-> None, distance_km |-> None]
NoSession == [state |-> "none", data |-> NoData]

\* the states of the group Checkout: their handlers are registered before
\* handle_webapp and take the message first
CheckoutStates == {"waiting_address", "waiting_city", "waiting_distance", "waiting_promo"}

\* the states a message handler is registered for: in them a text, a command
\* registered further down (/assign, /delivered) included, goes to that handler
MessageStates ==
    CheckoutStates \cup
    {"Review.waiting_rating", "Review.waiting_text", "Postuler.waiting_text",
     "Support.waiting_text", "AdminAddProduct.waiting_name", "AdminAddProduct.waiting_price",
     "AdminAddProduct.waiting_stock", "AdminAddProduct.waiting_photo",
     "AdminEditProduct.waiting_new_value"}

CodeTaken(code) == \E i \in 1..Len(orders) : orders[i].code = code

\* a row of table orders as the INSERT of checkout_finalize / handle_webapp writes it
OrderRow(id, code, user_id, items, subtotal, discount, delivery_fee, total, address, city, distance) ==
    [id |-> id, code |-> code, user_id |-> user_id, items |-> items,
     subtotal |-> subtotal, discount |-> discount, delivery_fee |-> delivery_fee,
     total |-> total, address |-> address, city |-> city, distance_km |-> distance,
     status |-> "pending", courier_user_id |-> None, delivered_at |-> None]

\* id INTEGER PRIMARY KEY AUTOINCREMENT: the next id
NewOrder(code, user_id, items, subtotal, discount, delivery_fee, total, address, city, distance) ==
    OrderRow(Len(orders) + 1, code, user_id, items, subtotal, discount, delivery_fee, total,
             address, city, distance)

\* what a handler answered: the handler, its caller, the text it was given (the
\* order code of /assign and /delivered, the text at the distance prompt; ""
\* otherwise) and the outcome
Answer(op, user_id, code, ret) == [op |-> op, user |-> user_id, code |-> code, ret |-> ret]

\* -------------------------------------------------------------- settlement
\* the UPDATE without its WHERE clause: every product is debited
DebitEveryProduct(prods, it) == [p \in DOMAIN prods |-> [prods[p] EXCEPT !.stock = @ - it.qty]]

\* UPDATE products SET stock=stock-? WHERE id=? (no row: nothing changes)
DebitLine(prods, it) ==
    IF it.id \in DOMAIN prods THEN [prods EXCEPT ![it.id].stock = @ - it.qty] ELSE prods

RECURSIVE Debit(_, _)
Debit(prods, items) ==
    IF items = <<>> THEN prods ELSE Debit(DebitLine(prods, Head(items)), Tail(items))

\* SELECT * FROM orders WHERE code=? AND status!='delivered': the row's position, 0 if none
RECURSIVE FindOpenFrom(_, _, _)
FindOpenFrom(ords, code, i) ==
    IF i > Len(ords) THEN 0
    ELSE IF ords[i].code = code /\ ords[i].status # "delivered" THEN i
    ELSE FindOpenFrom(ords, code, i + 1)

\* the SELECT without `AND status!='delivered'`: the first row with the code
FindByCode(ords, code) ==
    IF \E i \in 1..Len(ords) : ords[i].code = code
    THEN CHOOSE i \in 1..Len(ords) :
            ords[i].code = code /\ \A j \in 1..(i - 1) : ords[j].code # code
    ELSE 0

FindOpen(ords, code) == FindOpenFrom(ords, code, 1)

SaleEntry(order) == [order_id |-> order.id, entry_type |-> "sale", amount |-> order.total]

Database == [products |-> products, orders |-> orders, treasury |-> treasury]

\* int(it["qty"]), int(it["id"]) raise on a snapshot line that is not an object
DictsOnly(items) == \A k \in 1..Len(items) : IsDict(items[k])

\* a settlement that also rewrites the snapshot lines from the catalogue of the moment
MarkDeliveredRepriced(db, code) ==
    LET i == FindOpen(db.orders, code)
        reprice(items) == [k \in DOMAIN items |->
                             [items[k] EXCEPT !.name = db.products[items[k].id].name,
                                              !.price = db.products[items[k].id].price]]
    IN
    IF i = 0 THEN [db |-> db, ret |-> None, raised |-> FALSE]
    ELSE [db |-> [products |-> Debit(db.products, db.orders[i].items),
                  orders |-> [db.orders EXCEPT ![i].status = "delivered",
                                               ![i].delivered_at = Some("now"),
                                               ![i].items = reprice(@)],
                  treasury |-> Append(db.treasury, SaleEntry(db.orders[i]))],
          ret |-> Some(db.orders[i].id), raised |-> FALSE]

\* mark_order_delivered(code) on the database db: the database it leaves, what it
\* returns, and whether it raised instead of returning (the connection is then
\* closed without commit: nothing is written)
mark_order_delivered(db, code) ==
    LET i == FindOpen(db.orders, code) IN
    IF i = 0 THEN [db |-> db, ret |-> None, raised |-> FALSE]
    ELSE IF ~DictsOnly(db.orders[i].items) THEN [db |-> db, ret |-> None, raised |-> TRUE]
    ELSE [db |-> [products |-> Debit(db.products, db.orders[i].items),
                  orders |-> [db.orders EXCEPT ![i].status = "delivered",
                                               ![i].delivered_at = Some("now")],
                  treasury |-> Append(db.treasury, SaleEntry(db.orders[i]))],
          ret |-> Some(db.orders[i].id), raised |-> FALSE]

\* UPDATE orders SET status='assigned', courier_user_id=? WHERE code=?
set_order_assigned(ords, order_code, courier_user_id) ==
    [i \in DOMAIN ords |->
        IF ords[i].code = order_code
        THEN [ords[i] EXCEPT !.status = "assigned", !.courier_user_id = Some(courier_user_id)]
        ELSE ords[i]]

\* ----------------------------------------------------------------- handlers
cb_addcart(u, pid) ==
    /\ carts[u][pid] < MaxQty
    /\ carts' = add_to_cart(u, pid, 1)
    /\ last' = Answer("addcart", u, "", "OK")
    /\ UNCHANGED <<tasks, notified, users, products, product_seq, orders, treasury, fees, fsm, conns>>

\* the checkout button without the empty-cart test
CheckoutAnyCart(chat, u) ==
    /\ fsm' = [fsm EXCEPT ![chat, u].state = "waiting_address"]
    /\ last' = Answer("checkout", u, "", "OK")
    /\ UNCHANGED <<tasks, notified, users, products, product_seq, carts, orders, treasury, fees, conns>>

cb_checkout(chat, u) ==
    /\ IF get_cart(u) = <<>>
       THEN /\ last' = Answer("checkout", u, "", "EMPTY_CART")
            /\ UNCHANGED fsm
       ELSE /\ fsm' = [fsm EXCEPT ![chat, u].state = "waiting_address"]
            /\ last' = Answer("checkout", u, "", "OK")
    /\ UNCHANGED <<tasks, notified, users, products, product_seq, carts, orders, treasury, fees, conns>>

checkout_address(chat, u, text) ==
    /\ fsm[chat, u].state = "waiting_address"
    /\ fsm' = [fsm EXCEPT ![chat, u].data.address = Some(StrStrip(text)),
                          ![chat, u].state = "waiting_city"]
    /\ last' = Answer("checkout_address", u, "", "OK")
    /\ UNCHANGED <<tasks, notified, users, products, product_seq, carts, orders, treasury, fees, conns>>

checkout_city(chat, u, text) ==
    /\ fsm[chat, u].state = "waiting_city"
    /\ fsm' = [fsm EXCEPT ![chat, u].data.city = Some(StrStrip(text)),
                          ![chat, u].state = "waiting_distance"]
    /\ last' = Answer("checkout_city", u, "", "OK")
    /\ UNCHANGED <<tasks, notified, users, products, product_seq, carts, orders, treasury, fees, conns>>

checkout_distance(chat, u, text) ==
    /\ fsm[chat, u].state = "waiting_distance"
    /\ IF ParseDistance(text) = None
       THEN /\ last' = Answer("checkout_distance", u, text, "INVALID_INPUT")
            /\ UNCHANGED fsm
       ELSE /\ fsm' = [fsm EXCEPT ![chat, u].data.distance_km = ParseDistance(text),
                                  ![chat, u].state = "waiting_promo"]
            /\ last' = Answer("checkout_distance", u, text, "OK")
    /\ UNCHANGED <<tasks, notified, users, products, product_seq, carts, orders, treasury, fees, conns>>

\* an early return that also empties the caller's cart
AbortCheckoutClearsCart(chat, u, reason) ==
    /\ fsm' = [fsm EXCEPT ![chat, u] = NoSession]
    /\ last' = Answer("checkout_finalize", u, "", reason)
    /\ carts' = clear_cart(u)
    /\ UNCHANGED orders

\* the early returns of checkout_finalize: `await state.clear()` and an answer;
\* neither the cart nor the orders table is touched
AbortCheckout(chat, u, reason) ==
    /\ fsm' = [fsm EXCEPT ![chat, u] = NoSession]
    /\ last' = Answer("checkout_finalize", u, "", reason)
    /\ UNCHANGED <<carts, orders>>

\* a commit that takes the ordered quantities out of the stock (a hold at checkout)
CheckoutFinalizeReserving(chat, u, text, code, channel) ==
    /\ fsm[chat, u].state = "waiting_promo"
    /\ get_cart(u) # <<>>
    /\ ~CodeTaken(code)
    /\ LET data == fsm[chat, u].data
           items == get_cart(u)
           fee == compute_delivery_fee(data.city[1], data.distance_km[1])
           subtotal == SumLines(items)
           discount == IF StrUpper(StrStrip(text)) = PROMO_CODE THEN PROMO_BONUS ELSE 0
       IN
       /\ orders' = Append(orders, NewOrder(code, u, items, subtotal, discount, fee.fee,
                                            OrderTotal(subtotal, discount, fee.fee),
                                            data.address[1], data.city[1], data.distance_km[1]))
       /\ products' = Debit(products, items)
       /\ UNCHANGED product_seq
    /\ carts' = clear_cart(u)
    /\ fsm' = [fsm EXCEPT ![chat, u] = NoSession]
    /\ last' = Answer("checkout_finalize", u, "", "OK")
    /\ UNCHANGED <<tasks, notified, users, treasury, fees, conns>>

\* a commit suspended at the notification it awaits: [chat, user, code]
NotifyTask(chat, u, code) == [chat |-> chat, user |-> u, code |-> code]

\* checkout_finalize.  `code` is what gen_code() draws; a code already in the
\* table makes the INSERT raise (code TEXT UNIQUE), and the handler ends there.
\* `channel` is COURIER_CHANNEL_ID.  Without a channel nothing is awaited
\* between the committed INSERT and clear_cart / state.clear(): the handler is one
\* step.  With a channel the handler awaits bot.send_message after the INSERT:
\* the dispatcher runs other updates meanwhile, and the step ends at that await
\* with the cart and the session untouched (checkout_finalize_resume is the rest).
checkout_finalize(chat, u, text, code, channel) ==
    /\ fsm[chat, u].state = "waiting_promo"
    /\ channel # NoChannel => Cardinality(tasks) < MaxTasks
    /\ LET data == fsm[chat, u].data
           address == data.address[1]
           city == data.city[1]
           distance_km == IF data.distance_km = None THEN 0 ELSE data.distance_km[1]
           items == get_cart(u)
           fee == compute_delivery_fee(city, distance_km)
           subtotal == SumLines(items)
           promo_code == StrUpper(StrStrip(text))
           discount == (IF GLOBAL_DISCOUNT_ACTIVE THEN GLOBAL_DISCOUNT_EUR ELSE 0)
                       + (IF promo_code = PROMO_CODE THEN PROMO_BONUS ELSE 0)
           total == OrderTotal(subtotal, discount, fee.fee)
       IN
       IF items = <<>>
       THEN AbortCheckout(chat, u, "EMPTY_CART") /\ UNCHANGED <<tasks, notified>>
       ELSE IF FirstShort(items) # None
       THEN AbortCheckout(chat, u, "INSUFFICIENT_STOCK") /\ UNCHANGED <<tasks, notified>>
       ELSE IF ~fee.ok
       THEN AbortCheckout(chat, u, "UNCOVERED_ZONE") /\ UNCHANGED <<tasks, notified>>
       ELSE IF CodeTaken(code)
       THEN /\ last' = Answer("checkout_finalize", u, "", "INTEGRITY_ERROR")
            /\ UNCHANGED <<carts, orders, fsm, tasks, notified>>
       ELSE /\ orders' = Append(orders, NewOrder(code, u, items, subtotal, discount,
                                                 fee.fee, total, address, city, distance_km))
            /\ IF channel = NoChannel
               THEN /\ carts' = clear_cart(u)
                    /\ fsm' = [fsm EXCEPT ![chat, u] = NoSession]
                    /\ last' = Answer("checkout_finalize", u, "", "OK")
                    /\ UNCHANGED <<tasks, notified>>
               ELSE /\ tasks' = tasks \cup {NotifyTask(chat, u, code)}
                    /\ last' = Answer("checkout_finalize", u, "", "NOTIFYING")
                    /\ UNCHANGED <<carts, fsm, notified>>
    /\ UNCHANGED <<users, products, product_seq, treasury, fees, conns>>

\* the rest of checkout_finalize with the send outside any try: a send that
\* raises ends the handler, the cart and the session stay and the customer gets
\* no confirmation
CheckoutFinalizeResumeUnguarded(chat, u, code, sent) ==
    /\ NotifyTask(chat, u, code) \in tasks
    /\ tasks' = tasks \ {NotifyTask(chat, u, code)}
    /\ IF sent
       THEN /\ notified' = notified \cup {code}
            /\ carts' = clear_cart(u)
            /\ fsm' = [fsm EXCEPT ![chat, u] = NoSession]
            /\ last' = Answer("checkout_finalize", u, "", "OK")
       ELSE /\ last' = Answer("checkout_finalize", u, "", "ERROR")
            /\ UNCHANGED <<notified, carts, fsm>>
    /\ UNCHANGED <<users, products, product_seq, orders, treasury, fees, conns>>

\* the rest of checkout_finalize once bot.send_message has returned (sent) or
\* has raised (except: pass): clear_cart, state.clear() and the confirmation
checkout_finalize_resume(chat, u, code, sent) ==
    /\ NotifyTask(chat, u, code) \in tasks
    /\ notified' = IF sent THEN notified \cup {code} ELSE notified
    /\ carts' = clear_cart(u)
    /\ fsm' = [fsm EXCEPT ![chat, u] = NoSession]
    /\ tasks' = tasks \ {NotifyTask(chat, u, code)}
    /\ last' = Answer("checkout_finalize", u, "", "OK")
    /\ UNCHANGED <<users, products, product_seq, orders, treasury, fees, conns>>

\* COUNT(*) FROM orders WHERE user_id=? AND status='delivered'
DeliveredCount(u) ==
    Cardinality({i \in 1..Len(orders) : orders[i].user_id = u /\ orders[i].status = "delivered"})

\* a mini-app checkout suspended at the notification it awaits
WebappTask(chat, u, code) == [chat |-> chat, user |-> u, code |-> code, handler |-> "handle_webapp"]

\* the mini-app checkout with the promo code taken from the payload (line 634)
\* and not from m.text: a web_app_data message passes the subtotal/promo block
HandleWebappPayloadPromo(chat, u, items, address, city, distance_km, text, code, channel) ==
    /\ fsm[chat, u].state \notin CheckoutStates
    /\ LET subtotal == SumPairs(items)
           discount == IF (DeliveredCount(u) + 1) % LOYALTY_EVERY = 0 THEN PROMO_BONUS ELSE 0
           fee == compute_delivery_fee(city, distance_km)
           total == OrderTotal(subtotal, discount, fee.fee)
       IN
       IF ~PairsOnly(items) \/ ~fee.ok \/ CodeTaken(code)
       THEN /\ last' = Answer("handle_webapp", u, "", "ERROR")
            /\ UNCHANGED <<orders, tasks>>
       ELSE /\ orders' = Append(orders, NewOrder(code, u, items, subtotal, discount,
                                                 fee.fee, total, address, city, distance_km))
            /\ IF channel = NoChannel \/ ~DictsOnly(items)
               THEN /\ last' = Answer("handle_webapp", u, "",
                                      IF channel = NoChannel THEN "OK" ELSE "NOTIFY_ERROR")
                    /\ UNCHANGED tasks
               ELSE /\ Cardinality(tasks) < MaxTasks
                    /\ tasks' = tasks \cup {WebappTask(chat, u, code)}
                    /\ last' = Answer("handle_webapp", u, "", "NOTIFYING")
    /\ UNCHANGED <<notified, users, products, product_seq, carts, treasury, fees, fsm, conns>>

\* handle_webapp (the mini-app checkout).  Lines 636-661 of the source sit at the
\* wrong indentation; they are read here at the level of the statements around
\* them.  The dispatcher reaches this handler in every state but those of the
\* chat checkout, whose handlers are registered before it and take the message.
\* The subtotal/promo block raises, and the handler answers and returns, when a
\* line of items is not a [product, qty] array or when m.text is absent; a
\* web_app_data message is a service message and carries no text.  `channel` is
\* COURIER_CHANNEL_ID: with a channel the notification text is built after the
\* INSERT is committed, from it['name'] and it['qty'] of every line, which
\* raises on a [product, qty] array: the outer handler answers the error and the
\* order stays.  When the text builds, the handler awaits bot.send_message: the
\* dispatcher runs other updates meanwhile, and the step ends at that await with
\* nothing answered (handle_webapp_resume is the rest).
handle_webapp(chat, u, items, address, city, distance_km, text, code, channel) ==
    /\ fsm[chat, u].state \notin CheckoutStates
    /\ LET calc_ok == PairsOnly(items) /\ text # None
           subtotal == SumPairs(items)
           promo_code == StrUpper(StrStrip(text[1]))
           discount == (IF promo_code = PROMO_CODE THEN PROMO_BONUS ELSE 0)
                       + (IF (DeliveredCount(u) + 1) % LOYALTY_EVERY = 0 THEN PROMO_BONUS ELSE 0)
           fee == compute_delivery_fee(city, distance_km)
           total == OrderTotal(subtotal, discount, fee.fee)
       IN
       IF ~calc_ok
       THEN /\ last' = Answer("handle_webapp", u, "", "CALC_ERROR")
            /\ UNCHANGED <<orders, tasks>>
       ELSE IF ~fee.ok
       THEN /\ last' = Answer("handle_webapp", u, "", "UNCOVERED_ZONE")
            /\ UNCHANGED <<orders, tasks>>
       ELSE IF CodeTaken(code)
       THEN /\ last' = Answer("handle_webapp", u, "", "INTEGRITY_ERROR")
            /\ UNCHANGED <<orders, tasks>>
       ELSE /\ orders' = Append(orders, NewOrder(code, u, items, subtotal, discount,
                                                 fee.fee, total, address, city, distance_km))
            /\ IF channel = NoChannel
               THEN /\ last' = Answer("handle_webapp", u, "", "OK")
                    /\ UNCHANGED tasks
               ELSE IF ~DictsOnly(items)
               THEN /\ last' = Answer("handle_webapp", u, "", "NOTIFY_ERROR")
                    /\ UNCHANGED tasks
               ELSE /\ Cardinality(tasks) < MaxTasks
                    /\ tasks' = tasks \cup {WebappTask(chat, u, code)}
                    /\ last' = Answer("handle_webapp", u, "", "NOTIFYING")
    /\ UNCHANGED <<notified, users, products, product_seq, carts, treasury, fees, fsm, conns>>

\* the rest of handle_webapp once bot.send_message has returned (sent): the
\* confirmation; or has raised: the outer handler answers the error.  The order
\* stays either way and nothing else is written.  No run of the specifications
\* below holds a WebappTask: a web_app_data message never passes the
\* subtotal/promo block.
handle_webapp_resume(chat, u, code, sent) ==
    /\ WebappTask(chat, u, code) \in tasks
    /\ tasks' = tasks \ {WebappTask(chat, u, code)}
    /\ notified' = IF sent THEN notified \cup {code} ELSE notified
    /\ last' = Answer("handle_webapp", u, "", IF sent THEN "OK" ELSE "NOTIFY_ERROR")
    /\ UNCHANGED <<users, products, product_seq, carts, orders, treasury, fees, fsm, conns>>

\* /set_fees <max_km>:<fee>,...  payload is the parsed chunk list; the empty list
\* stands for a text the parsing raises on
cmd_set_fees(u, payload) ==
    /\ IF ~is_admin(u)
       THEN /\ last' = Answer("set_fees", u, "", "UNAUTHORIZED")
            /\ UNCHANGED fees
       ELSE IF payload = <<>>
       THEN /\ last' = Answer("set_fees", u, "", "FORMAT")
            /\ UNCHANGED fees
       ELSE /\ fees' = set_fees(SortTiers(payload), 0)
            /\ last' = Answer("set_fees", u, "", "OK")
    /\ UNCHANGED <<tasks, notified, users, products, product_seq, carts, orders, treasury, fsm, conns>>

\* a call compute_delivery_fee(city, distance), its arguments and its outcome
quote_delivery_fee(city, distance) ==
    /\ last' = [op |-> "compute_delivery_fee", user |-> 0, code |-> city,
                ret |-> IF compute_delivery_fee(city, distance).ok THEN "OK" ELSE "UNCOVERED_ZONE",
                distance |-> distance, fee |-> compute_delivery_fee(city, distance).fee]
    /\ UNCHANGED <<tasks, notified, users, products, product_seq, carts, orders, treasury, fees, fsm, conns>>

cmd_set_role(u, uid, role) ==
    /\ IF ~is_admin(u)
       THEN /\ last' = Answer("set_role", u, "", "UNAUTHORIZED")
            /\ UNCHANGED users
       ELSE /\ users' = [users EXCEPT ![uid] = role]
            /\ last' = Answer("set_role", u, "", "OK")
    /\ UNCHANGED <<tasks, notified, products, product_seq, carts, orders, treasury, fees, fsm, conns>>

\* UPDATE products SET stock=? WHERE id=?
set_stock_absolute(pid, stock) == [products EXCEPT ![pid].stock = stock]

\* ------------------------------------------------------------ product admin
\* what an admin types at the prompts of the panel dialogues, the name of a new
\* product, the fields the edit dialogue offers, and the roles of /set_role
AdminTexts == {"9", ""}
ProductNames == {"Pod"}
EditFields == {"name", "price", "stock", "photo"}
\* the field picked in the runs that only restock
PanelFields == {"stock"}
\* and the text typed as the new value in those runs
PanelTexts == {"9"}
RoleNames == {"customer", "staff", "admin"}
\* the parsed text of /add_product Nom|prix|stock; None: a text the parsing raises on
NewProductPayloads == {None, Some([name |-> "Pod", price |-> 9, stock |-> 9])}
\* the same, and the name of a product that exists
AddProductPayloads ==
    NewProductPayloads \cup {Some([name |-> "Pack 6x0.5L", price |-> 9, stock |-> 9])}
\* the parsed chunk lists of /set_fees in the administration runs
AdminFeePayloads == {<<>>, <<[max_km |-> 30, fee |-> 20]>>}

\* float(text.replace(",", ".")): None when float() raises
ParsePrice(text) ==
    CASE text = "9" -> Some(9)
      [] text = "9,0" -> Some(9)
      [] text = "1" -> Some(1)
      [] OTHER -> None

\* int(text): None when int() raises
ParseInt(text) ==
    CASE text = "9" -> Some(9)
      [] text = "1" -> Some(1)
      [] text = "5" -> Some(5)
      [] OTHER -> None

\* state.update_data(key=value) on the data of a session
update_data(data, key, value) ==
    [k \in DOMAIN data \cup {key} |-> IF k = key THEN value ELSE data[k]]

\* SELECT * FROM products WHERE id=?
get_product(pid) == IF pid \in DOMAIN products THEN Some(products[pid]) ELSE None

\* SELECT * FROM products WHERE is_active=1: the ids of the rows
list_active_products == {p \in DOMAIN products : products[p].is_active}

\* INSERT OR IGNORE INTO products(name, price, stock, is_active): the name is
\* UNIQUE, the id is the next AUTOINCREMENT value.  SQLite draws that value
\* before it tests the name: an insert the name makes it ignore uses up an id
\* as well (the callers advance product_seq in both cases).
add_product(name, price, stock) ==
    IF \E p \in DOMAIN products : products[p].name = name
    THEN products
    ELSE [p \in DOMAIN products \cup {product_seq + 1} |->
            IF p \in DOMAIN products THEN products[p]
            ELSE [name |-> name, price |-> price, stock |-> stock, is_active |-> TRUE]]

\* UPDATE products SET price=? WHERE id=?
set_price(pid, price) == [products EXCEPT ![pid].price = price]

\* UPDATE products SET name=? WHERE id=?
set_product_name(pid, new_name) == [products EXCEPT ![pid].name = new_name]

\* the UPDATE of set_product_name raises sqlite3.IntegrityError: name is UNIQUE
NameTaken(pid, new_name) == \E p \in DOMAIN products : p # pid /\ products[p].name = new_name

\* UPDATE products SET is_active=0 WHERE id=?
deactivate_product(pid) == [products EXCEPT ![pid].is_active = FALSE]

\* UPDATE products SET is_active=1 WHERE id=?
reactivate_product(pid) == [products EXCEPT ![pid].is_active = TRUE]

\* /add_product Nom|prix|stock
cmd_add_product(u, payload) ==
    /\ IF ~is_staff(u)
       THEN /\ last' = Answer("add_product", u, "", "UNAUTHORIZED")
            /\ UNCHANGED <<products, product_seq>>
       ELSE IF payload = None
       THEN /\ last' = Answer("add_product", u, "", "FORMAT")
            /\ UNCHANGED <<products, product_seq>>
       ELSE /\ product_seq < MaxProductSeq
            /\ products' = add_product(payload[1].name, payload[1].price, payload[1].stock)
            /\ product_seq' = product_seq + 1
            /\ last' = Answer("add_product", u, "", "OK")
    /\ UNCHANGED <<tasks, notified, users, carts, orders, treasury, fees, fsm, conns>>

\* /export_ca and the export button: the ledger is read, nothing is written
cmd_export_ca(u) ==
    /\ last' = Answer("export_ca", u, "", IF is_staff(u) THEN "OK" ELSE "UNAUTHORIZED")
    /\ UNCHANGED <<tasks, notified, users, products, product_seq, carts, orders, treasury, fees, fsm, conns>>

\* the panel dialogue that adds a product
admin_add_product_start(chat, u) ==
    /\ IF ~is_admin(u)
       THEN /\ last' = Answer("admin_add_product_start", u, "", "UNAUTHORIZED")
            /\ UNCHANGED fsm
       ELSE /\ fsm' = [fsm EXCEPT ![chat, u].state = "AdminAddProduct.waiting_name"]
            /\ last' = Answer("admin_add_product_start", u, "", "OK")
    /\ UNCHANGED <<tasks, notified, users, products, product_seq, carts, orders, treasury, fees, conns>>

admin_add_name(chat, u, text) ==
    /\ fsm[chat, u].state = "AdminAddProduct.waiting_name"
    /\ fsm' = [fsm EXCEPT ![chat, u] =
                 [state |-> "AdminAddProduct.waiting_price",
                  data |-> update_data(@.data, "name", Some(StrStrip(text)))]]
    /\ last' = Answer("admin_add_name", u, "", "OK")
    /\ UNCHANGED <<tasks, notified, users, products, product_seq, carts, orders, treasury, fees, conns>>

admin_add_price(chat, u, text) ==
    /\ fsm[chat, u].state = "AdminAddProduct.waiting_price"
    /\ IF ParsePrice(text) = None
       THEN /\ last' = Answer("admin_add_price", u, "", "INVALID_INPUT")
            /\ UNCHANGED fsm
       ELSE /\ fsm' = [fsm EXCEPT ![chat, u] =
                         [state |-> "AdminAddProduct.waiting_stock",
                          data |-> update_data(@.data, "price", ParsePrice(text))]]
            /\ last' = Answer("admin_add_price", u, "", "OK")
    /\ UNCHANGED <<tasks, notified, users, products, product_seq, carts, orders, treasury, fees, conns>>

admin_add_stock(chat, u, text) ==
    /\ fsm[chat, u].state = "AdminAddProduct.waiting_stock"
    /\ IF ParseInt(text) = None
       THEN /\ last' = Answer("admin_add_stock", u, "", "INVALID_INPUT")
            /\ UNCHANGED fsm
       ELSE /\ fsm' = [fsm EXCEPT ![chat, u] =
                         [state |-> "AdminAddProduct.waiting_photo",
                          data |-> update_data(@.data, "stock", ParseInt(text))]]
            /\ last' = Answer("admin_add_stock", u, "", "OK")
    /\ UNCHANGED <<tasks, notified, users, products, product_seq, carts, orders, treasury, fees, conns>>

\* the last prompt of the add dialogue without its own role check (the check of
\* the button that opened the dialogue is relied on)
AdminAddPhotoNoRecheck(chat, u) ==
    /\ fsm[chat, u].state = "AdminAddProduct.waiting_photo"
    /\ product_seq < MaxProductSeq
    /\ products' = add_product(fsm[chat, u].data.name[1], fsm[chat, u].data.price[1],
                               fsm[chat, u].data.stock[1])
    /\ product_seq' = product_seq + 1
    /\ last' = Answer("admin_add_photo", u, "", "OK")
    /\ fsm' = [fsm EXCEPT ![chat, u] = NoSession]
    /\ UNCHANGED <<tasks, notified, users, carts, orders, treasury, fees, conns>>

\* the last prompt, answered "non" (no photo)
admin_add_photo(chat, u) ==
    /\ fsm[chat, u].state = "AdminAddProduct.waiting_photo"
    /\ LET data == fsm[chat, u].data IN
       IF ~is_admin(u)
       THEN /\ last' = Answer("admin_add_photo", u, "", "UNAUTHORIZED")
            /\ UNCHANGED <<products, product_seq>>
       ELSE /\ product_seq < MaxProductSeq
            /\ products' = add_product(data.name[1], data.price[1], data.stock[1])
            /\ product_seq' = product_seq + 1
            /\ last' = Answer("admin_add_photo", u, "", "OK")
    /\ fsm' = [fsm EXCEPT ![chat, u] = NoSession]
    /\ UNCHANGED <<tasks, notified, users, carts, orders, treasury, fees, conns>>

\* the panel dialogue that edits a product
admin_edit_product_start(chat, u) ==
    /\ IF ~is_admin(u)
       THEN /\ last' = Answer("admin_edit_product_start", u, "", "UNAUTHORIZED")
            /\ UNCHANGED fsm
       ELSE IF list_active_products = {}
       THEN /\ last' = Answer("admin_edit_product_start", u, "", "NO_PRODUCT")
            /\ UNCHANGED fsm
       ELSE /\ fsm' = [fsm EXCEPT ![chat, u].state = "AdminEditProduct.waiting_choose_product"]
            /\ last' = Answer("admin_edit_product_start", u, "", "OK")
    /\ UNCHANGED <<tasks, notified, users, products, product_seq, carts, orders, treasury, fees, conns>>

admin_edit_pick_product(chat, u, pid) ==
    /\ fsm[chat, u].state = "AdminEditProduct.waiting_choose_product"
    /\ IF ~is_admin(u)
       THEN /\ last' = Answer("admin_edit_pick_product", u, "", "UNAUTHORIZED")
            /\ UNCHANGED fsm
       ELSE IF get_product(pid) = None
       THEN /\ last' = Answer("admin_edit_pick_product", u, "", "NOT_FOUND")
            /\ UNCHANGED fsm
       ELSE /\ fsm' = [fsm EXCEPT ![chat, u] =
                         [state |-> "AdminEditProduct.waiting_choose_field",
                          data |-> update_data(@.data, "pid", Some(pid))]]
            /\ last' = Answer("admin_edit_pick_product", u, "", "OK")
    /\ UNCHANGED <<tasks, notified, users, products, product_seq, carts, orders, treasury, fees, conns>>

\* the field is stored and the state set; the handler then raises on the
\* undefined name `prompt` before it answers
admin_edit_pick_field(chat, u, field) ==
    /\ fsm[chat, u].state = "AdminEditProduct.waiting_choose_field"
    /\ fsm' = [fsm EXCEPT ![chat, u] =
                 [state |-> "AdminEditProduct.waiting_new_value",
                  data |-> update_data(@.data, "field", Some(field))]]
    /\ last' = Answer("admin_edit_pick_field", u, "", "RAISED")
    /\ UNCHANGED <<tasks, notified, users, products, product_seq, carts, orders, treasury, fees, conns>>

\* a handler suspended at the answer it sends after the write, before
\* state.clear().  The dispatcher runs every update as a task of its own and the
\* session stays at the prompt meanwhile: several handlers of one session can be
\* suspended at once, and n tells them apart (the n-th of them, by arrival).
EditTask(chat, u, n) == [chat |-> chat, user |-> u, code |-> "admin_edit_apply", n |-> n]

\* the handlers of the session (chat, u) that are suspended at that answer
EditTasks(chat, u) == {t \in tasks : t.code = "admin_edit_apply" /\ t.chat = chat /\ t.user = u}

\* admin_edit_apply up to the answer it awaits after the write (or after the
\* error the try block caught): the session is still at the prompt.  An empty
\* name, and an empty text for the photo, are answered and the handler returns
\* with the session kept.  The photo is stored in table settings (not modelled).
admin_edit_apply(chat, u, text) ==
    /\ fsm[chat, u].state = "AdminEditProduct.waiting_new_value"
    /\ LET data == fsm[chat, u].data
           pid == data.pid[1]
           field == data.field[1]
           new_name == StrStrip(text)
           cleared == [fsm EXCEPT ![chat, u] = NoSession]
       IN
       IF ~is_admin(u)
       THEN /\ last' = Answer("admin_edit_apply", u, "", "UNAUTHORIZED")
            /\ fsm' = cleared
            /\ UNCHANGED <<products, product_seq, tasks, notified>>
       ELSE IF get_product(pid) = None
       THEN /\ last' = Answer("admin_edit_apply", u, "", "NOT_FOUND")
            /\ fsm' = cleared
            /\ UNCHANGED <<products, product_seq, tasks, notified>>
       ELSE IF field \in {"name", "photo"} /\ new_name = ""
       THEN /\ last' = Answer("admin_edit_apply", u, "", "INVALID_INPUT")
            /\ UNCHANGED <<fsm, products, product_seq, tasks, notified>>
       ELSE /\ Cardinality(tasks) < MaxTasks
            /\ tasks' = tasks \cup {EditTask(chat, u, Cardinality(EditTasks(chat, u)) + 1)}
            /\ UNCHANGED <<fsm, product_seq, notified>>
            /\ IF \/ field = "name" /\ NameTaken(pid, new_name)
                  \/ field = "price" /\ ParsePrice(text) = None
                  \/ field = "stock" /\ ParseInt(text) = None
               THEN /\ last' = Answer("admin_edit_apply", u, "", "ERROR")
                    /\ UNCHANGED products
               ELSE /\ products' = IF field = "name" THEN set_product_name(pid, new_name)
                                   ELSE IF field = "price" THEN set_price(pid, ParsePrice(text)[1])
                                   ELSE IF field = "stock" THEN set_stock_absolute(pid, ParseInt(text)[1])
                                   ELSE products
                    /\ last' = Answer("admin_edit_apply", u, "", "OK")
    /\ UNCHANGED <<users, carts, orders, treasury, fees, conns>>

\* the rest of admin_edit_apply once the answer is sent: await state.clear(),
\* on whatever the session holds by then.  The suspended handlers of a session
\* all do the same from here on: whichever resumes, one of them is gone.
admin_edit_apply_clear(chat, u) ==
    /\ EditTasks(chat, u) # {}
    /\ fsm' = [fsm EXCEPT ![chat, u] = NoSession]
    /\ tasks' = tasks \ {EditTask(chat, u, Cardinality(EditTasks(chat, u)))}
    /\ UNCHANGED notified
    /\ last' = Answer("admin_edit_apply_clear", u, "", "OK")
    /\ UNCHANGED <<users, products, product_seq, carts, orders, treasury, fees, conns>>

\* ------------------------------------------------- reviews, applications, support
\* The buttons avis, postuler and support carry no state filter: they move the
\* caller's session to their own prompt whatever it was doing, and keep its data.
\* The rows the text handlers insert (tables reviews, applications, support) are
\* read by nothing else and are not modelled; their state.clear() is.
RatingTexts == {"5", "non"}
PublicTexts == {"bien"}

cb_avis(chat, u) ==
    /\ fsm' = [fsm EXCEPT ![chat, u].state = "Review.waiting_rating"]
    /\ last' = Answer("avis", u, "", "OK")
    /\ UNCHANGED <<tasks, notified, users, products, product_seq, carts, orders, treasury, fees, conns>>

\* rating = int(m.text); assert 1 <= rating <= 5
review_rating(chat, u, text) ==
    /\ fsm[chat, u].state = "Review.waiting_rating"
    /\ IF ParseInt(text) = None \/ ~(1 <= ParseInt(text)[1] /\ ParseInt(text)[1] <= 5)
       THEN /\ last' = Answer("review_rating", u, "", "INVALID_INPUT")
            /\ UNCHANGED fsm
       ELSE /\ fsm' = [fsm EXCEPT ![chat, u] =
                         [state |-> "Review.waiting_text",
                          data |-> update_data(@.data, "rating", ParseInt(text))]]
            /\ last' = Answer("review_rating", u, "", "OK")
    /\ UNCHANGED <<tasks, notified, users, products, product_seq, carts, orders, treasury, fees, conns>>

review_text(chat, u, text) ==
    /\ fsm[chat, u].state = "Review.waiting_text"
    /\ fsm' = [fsm EXCEPT ![chat, u] = NoSession]
    /\ last' = Answer("review_text", u, "", "OK")
    /\ UNCHANGED <<tasks, notified, users, products, product_seq, carts, orders, treasury, fees, conns>>

cb_postuler(chat, u) ==
    /\ fsm' = [fsm EXCEPT ![chat, u].state = "Postuler.waiting_text"]
    /\ last' = Answer("postuler", u, "", "OK")
    /\ UNCHANGED <<tasks, notified, users, products, product_seq, carts, orders, treasury, fees, conns>>

postuler_text(chat, u, text) ==
    /\ fsm[chat, u].state = "Postuler.waiting_text"
    /\ fsm' = [fsm EXCEPT ![chat, u] = NoSession]
    /\ last' = Answer("postuler_text", u, "", "OK")
    /\ UNCHANGED <<tasks, notified, users, products, product_seq, carts, orders, treasury, fees, conns>>

cb_support(chat, u) ==
    /\ fsm' = [fsm EXCEPT ![chat, u].state = "Support.waiting_text"]
    /\ last' = Answer("support", u, "", "OK")
    /\ UNCHANGED <<tasks, notified, users, products, product_seq, carts, orders, treasury, fees, conns>>

support_text(chat, u, text) ==
    /\ fsm[chat, u].state = "Support.waiting_text"
    /\ fsm' = [fsm EXCEPT ![chat, u] = NoSession]
    /\ last' = Answer("support_text", u, "", "OK")
    /\ UNCHANGED <<tasks, notified, users, products, product_seq, carts, orders, treasury, fees, conns>>

\* the buttons delp:<id> and reactp:<id> of the panel
admin_delete_product_confirm(u, pid) ==
    /\ IF ~is_admin(u)
       THEN /\ last' = Answer("admin_delete_product_confirm", u, "", "UNAUTHORIZED")
            /\ UNCHANGED <<products, product_seq>>
       ELSE IF get_product(pid) = None
       THEN /\ last' = Answer("admin_delete_product_confirm", u, "", "NOT_FOUND")
            /\ UNCHANGED <<products, product_seq>>
       ELSE /\ products' = deactivate_product(pid)
            /\ UNCHANGED product_seq
            /\ last' = Answer("admin_delete_product_confirm", u, "", "OK")
    /\ UNCHANGED <<tasks, notified, users, carts, orders, treasury, fees, fsm, conns>>

admin_reactivate_product_confirm(u, pid) ==
    /\ IF ~is_admin(u)
       THEN /\ last' = Answer("admin_reactivate_product_confirm", u, "", "UNAUTHORIZED")
            /\ UNCHANGED <<products, product_seq>>
       ELSE IF get_product(pid) = None
       THEN /\ last' = Answer("admin_reactivate_product_confirm", u, "", "NOT_FOUND")
            /\ UNCHANGED <<products, product_seq>>
       ELSE /\ products' = reactivate_product(pid)
            /\ UNCHANGED product_seq
            /\ last' = Answer("admin_reactivate_product_confirm", u, "", "OK")
    /\ UNCHANGED <<tasks, notified, users, carts, orders, treasury, fees, fsm, conns>>

\* /assign and /delivered are registered after every state handler: the
\* dispatcher reaches them when the sender's session in the chat is in no state
\* that takes messages
cmd_assign(chat, u, code, courier_id) ==
    /\ fsm[chat, u].state \notin MessageStates
    /\ IF ~is_admin(u)
       THEN /\ last' = Answer("assign", u, "", "UNAUTHORIZED")
            /\ UNCHANGED orders
       ELSE /\ orders' = set_order_assigned(orders, code, courier_id)
            /\ last' = Answer("assign", u, code, "OK")
    /\ UNCHANGED <<tasks, notified, users, products, product_seq, carts, treasury, fees, fsm, conns>>

cmd_delivered(chat, u, code) ==
    /\ fsm[chat, u].state \notin MessageStates
    /\ FindOpen(orders, code) = 0 \/ Len(treasury) < MaxTreasury
    /\ IF ~is_staff(u)
       THEN /\ last' = Answer("delivered", u, "", "UNAUTHORIZED")
            /\ UNCHANGED <<products, product_seq, orders, treasury>>
       ELSE LET r == mark_order_delivered(Database, code) IN
            /\ products' = r.db.products
            /\ UNCHANGED product_seq
            /\ orders' = r.db.orders
            /\ treasury' = r.db.treasury
            /\ last' = Answer("delivered", u, code,
                              IF r.raised THEN "RAISED"
                              ELSE IF r.ret = None THEN "ORDER_ALREADY_SETTLED" ELSE "OK")
    /\ UNCHANGED <<tasks, notified, users, carts, fees, fsm, conns>>

\* ------------------------------------------- settlement, statement by statement
\* mark_order_delivered opens a connection of its own (db()), reads the order
\* outside any transaction, then writes: sqlite3 opens a transaction before the
\* first UPDATE, which takes the database's write lock until commit() or until
\* the connection is closed (closing(...)), which rolls back.  products, orders
\* and treasury are the committed database; conns[p].txn is what connection p
\* has written and not yet committed.
Procs == {"p1", "p2"}
IdleConn == [pc |-> "idle", code |-> "", row |-> None, k |-> 0, txn |-> None,
             outcome |-> "", at |-> ""]

\* a database without a write lock: a connection writes while another has an
\* open transaction
NoWriteLock(p) == TRUE

\* the write lock is free for p
CanWrite(p) == \A q \in Procs \ {p} : conns[q].txn = None

\* the database as connection p sees it
View(p) == IF conns[p].txn = None THEN Database ELSE conns[p].txn[1]

InFlight == Cardinality({q \in Procs : conns[q].pc # "idle"})

\* a connection in autocommit mode: every statement is committed as it runs
WriteStepAutocommit(p, db2, pc2, k2) ==
    /\ conns' = [conns EXCEPT ![p].txn = Some(db2), ![p].pc = pc2, ![p].k = k2]
    /\ products' = db2.products
    /\ UNCHANGED product_seq
    /\ orders' = db2.orders
    /\ treasury' = db2.treasury

\* conn.execute(UPDATE / INSERT ...) inside the open transaction: the committed
\* database does not change
WriteStep(p, db2, pc2, k2) ==
    /\ conns' = [conns EXCEPT ![p].txn = Some(db2), ![p].pc = pc2, ![p].k = k2]
    /\ UNCHANGED <<products, product_seq, orders, treasury>>

conn_call(p, code) ==
    /\ conns[p].pc = "idle"
    /\ Len(treasury) + InFlight < MaxTreasury
    /\ conns' = [conns EXCEPT ![p] = [IdleConn EXCEPT !.pc = "select", !.code = code]]
    /\ UNCHANGED <<tasks, notified, users, products, product_seq, carts, orders, treasury, fees, fsm, last>>

\* order = SELECT * FROM orders WHERE code=? AND status!='delivered'; if not order: return None
conn_select(p) ==
    /\ conns[p].pc = "select"
    /\ LET i == FindOpen(orders, conns[p].code) IN
       IF i = 0
       THEN conns' = [conns EXCEPT ![p].pc = "idle", ![p].outcome = "NONE"]
       ELSE conns' = [conns EXCEPT ![p].row = Some(orders[i]), ![p].k = 1,
                                   ![p].pc = IF orders[i].items = <<>> THEN "status" ELSE "debit"]
    /\ UNCHANGED <<tasks, notified, users, products, product_seq, carts, orders, treasury, fees, fsm, last>>

\* for it in items: UPDATE products SET stock=stock-? WHERE id=?  (one line per step)
conn_debit(p) ==
    /\ conns[p].pc = "debit"
    /\ CanWrite(p)
    /\ IsDict(conns[p].row[1].items[conns[p].k])
    /\ LET row == conns[p].row[1]
           k == conns[p].k
           db == View(p)
       IN WriteStep(p, [db EXCEPT !.products = DebitLine(db.products, row.items[k])],
                    IF k = Len(row.items) THEN "status" ELSE "debit", k + 1)
    /\ UNCHANGED <<tasks, notified, users, carts, fees, fsm, last>>

\* UPDATE orders SET status='delivered', delivered_at=? WHERE id=?
conn_status(p) ==
    /\ conns[p].pc = "status"
    /\ CanWrite(p)
    /\ LET row == conns[p].row[1]
           db == View(p)
       IN WriteStep(p, [db EXCEPT !.orders[row.id].status = "delivered",
                                  !.orders[row.id].delivered_at = Some("now")],
                    "insert", conns[p].k)
    /\ UNCHANGED <<tasks, notified, users, carts, fees, fsm, last>>

\* INSERT INTO treasury(order_id, entry_type, amount, created_at)
conn_insert(p) ==
    /\ conns[p].pc = "insert"
    /\ LET row == conns[p].row[1]
           db == View(p)
       IN WriteStep(p, [db EXCEPT !.treasury = Append(db.treasury, SaleEntry(row))],
                    "commit", conns[p].k)
    /\ UNCHANGED <<tasks, notified, users, carts, fees, fsm, last>>

\* conn.commit(); return order["id"]
conn_commit(p) ==
    /\ conns[p].pc = "commit"
    /\ products' = conns[p].txn[1].products
    /\ UNCHANGED product_seq
    /\ orders' = conns[p].txn[1].orders
    /\ treasury' = conns[p].txn[1].treasury
    /\ conns' = [conns EXCEPT ![p].txn = None, ![p].pc = "idle", ![p].outcome = "OK"]
    /\ UNCHANGED <<tasks, notified, users, carts, fees, fsm, last>>

\* a statement raises (the lock wait times out, a snapshot line is malformed, the
\* process dies): closing(conn) closes the connection and the open transaction
\* is rolled back
conn_fail(p) ==
    /\ conns[p].pc \in {"debit", "status", "insert", "commit"}
    /\ conns' = [conns EXCEPT ![p].txn = None, ![p].pc = "idle",
                              ![p].outcome = "RAISED", ![p].at = conns[p].pc]
    /\ UNCHANGED <<tasks, notified, users, products, product_seq, carts, orders, treasury, fees, fsm, last>>

\* set_stock_absolute(pid, stock) called by the edit dialogue while settlements
\* run: one UPDATE and its commit on a connection of its own.  While another
\* connection holds the write lock the UPDATE waits (the step comes later) or
\* its wait times out and it raises, nothing written.  The answer records how
\* many settlements were committed before it.
conn_set_stock(pid, stock) ==
    /\ IF CanWrite("admin")
       THEN /\ products' = set_stock_absolute(pid, stock)
            /\ UNCHANGED product_seq
            /\ last' = [op |-> "set_stock_absolute", user |-> OWNER_ID, code |-> "", ret |-> "OK",
                        pid |-> pid, stock |-> stock, sales |-> Len(treasury)]
       ELSE /\ last' = [op |-> "set_stock_absolute", user |-> OWNER_ID, code |-> "",
                        ret |-> "LOCKED", pid |-> pid, stock |-> products[pid].stock,
                        sales |-> Len(treasury)]
            /\ UNCHANGED <<products, product_seq>>
    /\ UNCHANGED <<tasks, notified, users, carts, orders, treasury, fees, fsm, conns>>

\* ------------------------------------------------------------ specification
\* The products table after init_db() and the seeding of on_startup() (three
\* active rows, ids 1..3, the sequence at 3), followed by the admin edits that
\* bring it down to small whole numbers: the prices 2.50, 6.90 and 3.20 set to
\* 3, 7 and 3 euros, the stocks 50 and 30 of products 1 and 2 set to one unit.
InitProducts ==
    [p \in ProductIds |->
        IF p = 1 THEN [name |-> "Bouteille 1.0L", price |-> 3, stock |-> 1, is_active |-> TRUE]
        ELSE IF p = 2 THEN [name |-> "Pack 6x0.5L", price |-> 7, stock |-> 1, is_active |-> TRUE]
        ELSE [name |-> "Pod citron", price |-> 3, stock |-> 100, is_active |-> TRUE]]

\* the sequence of table products after the seeding
InitProductSeq == Cardinality(ProductIds)

Init ==
    /\ users = [u \in Users |-> "customer"]
    /\ products = InitProducts
    /\ product_seq = InitProductSeq
    /\ carts = [u \in Users |-> [p \in ProductIds |-> 0]]
    /\ orders = <<>>
    /\ treasury = <<>>
    /\ fees = [tiers |-> DEFAULT_TIERED_FEES, per_km |-> 0]
    /\ fsm = [k \in Chats \X Users |-> NoSession]
    /\ conns = [p \in Procs |-> IdleConn]
    /\ tasks = {}
    /\ notified = {}
    /\ last = Answer("start", 0, "", "OK")

\* The shop in its default configuration (COURIER_CHANNEL_ID = 0, no channel):
\* the customer fills a cart, runs the chat checkout and the mini-app checkout
\* and presses the review, application and support buttons at any moment; the
\* owner and the customer send /assign and /delivered.  The catalogue is edited
\* in SpecCatalogue and SpecAdmin, the configured channel is run in SpecRace.
Next ==
    \/ \E u \in Customers, pid \in CartProducts : cb_addcart(u, pid)
    \/ \E u \in Customers : cb_checkout(PrivateChat(u), u)
    \/ \E u \in Customers, text \in Addresses : checkout_address(PrivateChat(u), u, text)
    \/ \E u \in Customers, text \in Cities : checkout_city(PrivateChat(u), u, text)
    \/ \E u \in Customers, text \in DistanceTexts : checkout_distance(PrivateChat(u), u, text)
    \/ \E u \in Customers, text \in PromoTexts, code \in Codes :
            checkout_finalize(PrivateChat(u), u, text, code, NoChannel)
    \/ \E u \in Customers, items \in WebappItems, address \in Addresses, city \in Cities,
          distance_km \in WebappDistances, text \in WebappTexts, code \in Codes :
            handle_webapp(PrivateChat(u), u, items, address, city, distance_km, text, code,
                          NoChannel)
    \/ \E u \in Customers : cb_avis(PrivateChat(u), u)
    \/ \E u \in Customers, text \in RatingTexts : review_rating(PrivateChat(u), u, text)
    \/ \E u \in Customers, text \in PublicTexts : review_text(PrivateChat(u), u, text)
    \/ \E u \in Customers : cb_postuler(PrivateChat(u), u)
    \/ \E u \in Customers, text \in PublicTexts : postuler_text(PrivateChat(u), u, text)
    \/ \E u \in Customers : cb_support(PrivateChat(u), u)
    \/ \E u \in Customers, text \in PublicTexts : support_text(PrivateChat(u), u, text)
    \/ \E u \in Users, code \in Codes, courier_id \in Couriers : cmd_assign(PrivateChat(u), u, code, courier_id)
    \/ \E u \in Users, code \in Codes : cmd_delivered(PrivateChat(u), u, code)

Spec == Init /\ [][Next]_vars

\* Two concurrent deliveries: a database holding two pending orders (a one-line
\* and a two-line cart, checked out from Paris at 15 km without promo code) and
\* the stock they ask for.
ConcStock == [p \in ProductIds |-> IF p = 1 THEN 2 ELSE InitProducts[p].stock]

ConcOrders ==
    <<OrderRow(1, "CMD-A", 2, <<[id |-> 1, name |-> "Bouteille 1.0L", price |-> 3, qty |-> 1]>>,
               3, 0, 20, 23, "12 rue Droite", "Paris", 150),
      OrderRow(2, "CMD-B", 2, <<[id |-> 1, name |-> "Bouteille 1.0L", price |-> 3, qty |-> 1],
                                [id |-> 2, name |-> "Pack 6x0.5L", price |-> 7, qty |-> 1]>>,
               10, 0, 20, 30, "12 rue Droite", "Paris", 150)>>

InitConc ==
    /\ users = [u \in Users |-> "customer"]
    /\ products = [p \in ProductIds |-> [InitProducts[p] EXCEPT !.stock = ConcStock[p]]]
    /\ product_seq = InitProductSeq
    /\ carts = [u \in Users |-> [p \in ProductIds |-> 0]]
    /\ orders = ConcOrders
    /\ treasury = <<>>
    /\ fees = [tiers |-> DEFAULT_TIERED_FEES, per_km |-> 0]
    /\ fsm = [k \in Chats \X Users |-> NoSession]
    /\ conns = [p \in Procs |-> IdleConn]
    /\ tasks = {}
    /\ notified = {}
    /\ last = Answer("start", 0, "", "OK")

NextConc ==
    \/ \E p \in Procs, code \in Codes : conn_call(p, code)
    \/ \E p \in Procs : conn_select(p)
    \/ \E p \in Procs : conn_debit(p)
    \/ \E p \in Procs : conn_status(p)
    \/ \E p \in Procs : conn_insert(p)
    \/ \E p \in Procs : conn_commit(p)
    \/ \E p \in Procs : conn_fail(p)

SpecConc == InitConc /\ [][NextConc]_vars

\* The two checkouts with a courier channel configured (COURIER_CHANNEL_ID # 0):
\* catalogue clicks and further messages arrive while a commit is suspended at
\* its notification.
RaceProducts == {1, 2}

InitRace == Init

NextRace ==
    \/ \E u \in Users, pid \in RaceProducts : cb_addcart(u, pid)
    \/ \E u \in Customers : cb_checkout(PrivateChat(u), u)
    \/ \E u \in Customers, text \in Addresses : checkout_address(PrivateChat(u), u, text)
    \/ \E u \in Customers, text \in Cities : checkout_city(PrivateChat(u), u, text)
    \/ \E u \in Customers, text \in DistanceTexts : checkout_distance(PrivateChat(u), u, text)
    \/ \E u \in Customers, text \in PromoTexts, code \in Codes :
            checkout_finalize(PrivateChat(u), u, text, code, CourierChannel)
    \/ \E u \in Customers, code \in Codes, sent \in BOOLEAN :
            checkout_finalize_resume(PrivateChat(u), u, code, sent)
    \/ \E u \in Customers, items \in WebappItems, address \in Addresses, city \in Cities,
          distance_km \in WebappDistances, text \in WebappTexts, code \in Codes :
            handle_webapp(PrivateChat(u), u, items, address, city, distance_km, text, code,
                          CourierChannel)

SpecRace == InitRace /\ [][NextRace]_vars

\* The slash commands of the back office and the quotes: /set_fees installs
\* schedules and fees are computed against them, /add_product adds products, the
\* name of an existing product included.
RECURSIVE SeqsUpTo(_, _)
SeqsUpTo(S, n) ==
    IF n = 0 THEN {<<>>}
    ELSE SeqsUpTo(S, n - 1) \cup {Append(q, x) : q \in {r \in SeqsUpTo(S, n - 1) : Len(r) = n - 1}, x \in S}

FeePayloads == SeqsUpTo(TierChoices, MaxTiers)

InitFee == Init

NextFee ==
    \/ \E u \in Users, payload \in FeePayloads : cmd_set_fees(u, payload)
    \/ \E u \in Users, payload \in AddProductPayloads : cmd_add_product(u, payload)
    \/ \E city \in FeeCities, distance \in FeeDistances : quote_delivery_fee(city, distance)

SpecFee == InitFee /\ [][NextFee]_vars

\* The chat checkout with every prompt exercised, no courier channel configured.
\* The FSM storage is keyed by (chat, user) and the cart by user: the customer
\* also runs a checkout from a group chat, on the same cart, and presses the
\* review, application and support buttons in the private chat at any moment.
InitDialogue == Init

NextDialogue ==
    \/ \E u \in Customers, pid \in CartProducts : cb_addcart(u, pid)
    \/ \E u \in Customers : \E chat \in {PrivateChat(u), GroupChat} : cb_checkout(chat, u)
    \/ \E u \in Customers, text \in DialogueAddresses : checkout_address(PrivateChat(u), u, text)
    \/ \E u \in Customers, text \in Addresses : checkout_address(GroupChat, u, text)
    \/ \E u \in Customers, text \in DialogueCities : checkout_city(PrivateChat(u), u, text)
    \/ \E u \in Customers, text \in Cities : checkout_city(GroupChat, u, text)
    \/ \E u \in Customers, text \in DialogueDistances :
            checkout_distance(PrivateChat(u), u, text)
    \/ \E u \in Customers, text \in {"15"} : checkout_distance(GroupChat, u, text)
    \/ \E u \in Customers, text \in DialoguePromos, code \in Codes :
          \E chat \in {PrivateChat(u), GroupChat} :
              checkout_finalize(chat, u, text, code, NoChannel)
    \/ \E u \in Customers : cb_avis(PrivateChat(u), u)
    \/ \E u \in Customers, text \in RatingTexts : review_rating(PrivateChat(u), u, text)
    \/ \E u \in Customers, text \in PublicTexts : review_text(PrivateChat(u), u, text)
    \/ \E u \in Customers : cb_postuler(PrivateChat(u), u)
    \/ \E u \in Customers, text \in PublicTexts : postuler_text(PrivateChat(u), u, text)
    \/ \E u \in Customers : cb_support(PrivateChat(u), u)
    \/ \E u \in Customers, text \in PublicTexts : support_text(PrivateChat(u), u, text)

SpecDialogue == InitDialogue /\ [][NextDialogue]_vars

\* Administration: the owner hands out and takes back roles while user 2 sends
\* the admin commands and runs the panel dialogues (the edit dialogue on the
\* stock, with a text that parses; /set_fees with a schedule that parses), over
\* a database that has been in use: it holds one pending order, and earlier
\* /add_product calls on existing names have drawn ids, the sequence of table
\* products is one short of MaxProductSeq.
AdminOrders == <<ConcOrders[1]>>
AdminCodes == {"CMD-A"}

InitAdmin ==
    /\ users = [u \in Users |-> "customer"]
    /\ products = [p \in ProductIds |-> [InitProducts[p] EXCEPT !.stock = ConcStock[p]]]
    /\ product_seq = MaxProductSeq - 1
    /\ carts = [u \in Users |-> [p \in ProductIds |-> 0]]
    /\ orders = AdminOrders
    /\ treasury = <<>>
    /\ fees = [tiers |-> DEFAULT_TIERED_FEES, per_km |-> 0]
    /\ fsm = [k \in Chats \X Users |-> NoSession]
    /\ conns = [p \in Procs |-> IdleConn]
    /\ tasks = {}
    /\ notified = {}
    /\ last = Answer("start", 0, "", "OK")

NextAdmin ==
    \/ \E u \in Users, uid \in Customers, role \in RoleNames : cmd_set_role(u, uid, role)
    \/ \E u \in Customers, payload \in AdminFeePayloads \ {<<>>} : cmd_set_fees(u, payload)
    \/ \E u \in Customers, code \in AdminCodes, courier_id \in Couriers :
            cmd_assign(PrivateChat(u), u, code, courier_id)
    \/ \E u \in Customers, code \in AdminCodes : cmd_delivered(PrivateChat(u), u, code)
    \/ \E u \in Customers, payload \in NewProductPayloads : cmd_add_product(u, payload)
    \/ \E u \in Customers : cmd_export_ca(u)
    \/ \E u \in Customers : admin_add_product_start(PrivateChat(u), u)
    \/ \E u \in Customers, text \in ProductNames : admin_add_name(PrivateChat(u), u, text)
    \/ \E u \in Customers, text \in AdminTexts : admin_add_price(PrivateChat(u), u, text)
    \/ \E u \in Customers, text \in AdminTexts : admin_add_stock(PrivateChat(u), u, text)
    \/ \E u \in Customers : admin_add_photo(PrivateChat(u), u)
    \/ \E u \in Customers : admin_edit_product_start(PrivateChat(u), u)
    \/ \E u \in Customers, pid \in EditProducts : admin_edit_pick_product(PrivateChat(u), u, pid)
    \/ \E u \in Customers, field \in PanelFields : admin_edit_pick_field(PrivateChat(u), u, field)
    \/ \E u \in Customers, text \in PanelTexts : admin_edit_apply(PrivateChat(u), u, text)
    \/ \E u \in Customers : admin_edit_apply_clear(PrivateChat(u), u)
    \/ \E u \in Customers, pid \in EditProducts : admin_delete_product_confirm(u, pid)
    \/ \E u \in Customers, pid \in EditProducts : admin_reactivate_product_confirm(u, pid)

SpecAdmin == InitAdmin /\ [][NextAdmin]_vars

\* Catalogue maintenance: the owner edits the name, the price, the
\* stock and the photo of a product, deactivates and reactivates it, replaces the
\* fee schedule, assigns and settles the order, while the customer fills a cart.
InitCatalogue == InitAdmin

NextCatalogue ==
    \/ \E pid \in CartProducts, u \in Customers : cb_addcart(u, pid)
    \/ \E payload \in AdminFeePayloads : cmd_set_fees(OWNER_ID, payload)
    \/ \E code \in AdminCodes, courier_id \in Couriers : cmd_assign(PrivateChat(OWNER_ID), OWNER_ID, code, courier_id)
    \/ \E code \in AdminCodes : cmd_delivered(PrivateChat(OWNER_ID), OWNER_ID, code)
    \/ admin_edit_product_start(PrivateChat(OWNER_ID), OWNER_ID)
    \/ \E pid \in EditProducts : admin_edit_pick_product(PrivateChat(OWNER_ID), OWNER_ID, pid)
    \/ \E field \in EditFields : admin_edit_pick_field(PrivateChat(OWNER_ID), OWNER_ID, field)
    \/ \E text \in AdminTexts : admin_edit_apply(PrivateChat(OWNER_ID), OWNER_ID, text)
    \/ admin_edit_apply_clear(PrivateChat(OWNER_ID), OWNER_ID)
    \/ \E pid \in EditProducts : admin_delete_product_confirm(OWNER_ID, pid)
    \/ \E pid \in EditProducts : admin_reactivate_product_confirm(OWNER_ID, pid)

SpecCatalogue == InitCatalogue /\ [][NextCatalogue]_vars

\* Two concurrent deliveries and an admin who sets a stock meanwhile.
InitStock == InitConc

NextStock ==
    \/ \E p \in Procs, code \in Codes : conn_call(p, code)
    \/ \E p \in Procs : conn_select(p)
    \/ \E p \in Procs : conn_debit(p)
    \/ \E p \in Procs : conn_status(p)
    \/ \E p \in Procs : conn_insert(p)
    \/ \E p \in Procs : conn_commit(p)
    \/ \E p \in Procs : conn_fail(p)
    \/ \E pid \in EditProducts, stock \in StockValues : conn_set_stock(pid, stock)

SpecStock == InitStock /\ [][NextStock]_vars

\* ==================================================================== claims
\* the 'sale' rows of the treasury tr that name order oid
SaleCount(tr, oid) ==
    Cardinality({j \in 1..Len(tr) : tr[j].order_id = oid /\ tr[j].entry_type = "sale"})

\* the product and the quantity a snapshot line asks for, in either shape
LineId(it) == IF IsPair(it) THEN it.e1.id ELSE it.id
LineQty(it) == IF IsPair(it) THEN it.e2 ELSE it.qty

\* the units of product pid a snapshot asks for
RECURSIVE QtyOf(_, _)
QtyOf(items, pid) ==
    IF items = <<>> THEN 0
    ELSE (IF LineId(Head(items)) = pid THEN LineQty(Head(items)) ELSE 0)
         + QtyOf(Tail(items), pid)

\* C1: after any sequence of checkouts, admin stock edits and settlements no
\* product's stock is negative (a settlement asking for more than the stock is
\* rejected).  The code subtracts unconditionally: violated.
C1_StockNeverNegative == \A p \in ProductIds : products[p].stock >= 0

\* C2: settling the same order code twice in a row leaves products, orders and
\* treasury exactly as the first call left them, and the second call returns None
\* (a first call that raised on a malformed snapshot settled nothing: the second
\* then only has to change nothing).
C2_SettleTwiceIsSettleOnce ==
    \A code \in Codes :
        LET first == mark_order_delivered(Database, code)
            second == mark_order_delivered(first.db, code)
        IN /\ second.db = first.db
           /\ ~first.raised => (second.ret = None /\ ~second.raised)

\* a /delivered on an order that is already delivered has run and answered so
C2_Witness ==
    /\ last.op = "delivered" /\ last.ret = "ORDER_ALREADY_SETTLED"
    /\ \E i \in 1..Len(orders) :
          /\ orders[i].code = last.code
          /\ orders[i].status = "delivered"
          /\ SaleCount(treasury, orders[i].id) = 1

\* C3: in every reachable state the treasury holds at most one 'sale' row per
\* order (so each order was debited at most once).  /assign reopens a delivered
\* order and the next /delivered settles it again: violated.
C3_AtMostOneSalePerOrder ==
    \A i \in 1..Len(orders) : SaleCount(treasury, orders[i].id) <= 1

\* C4: of two settlement calls on the same order code that run concurrently,
\* each on its own connection, exactly one settles (debits and appends a treasury
\* row); the other has no effect.  Both can read the order as open before either
\* writes: violated.
C4_OneOfTwoConcurrentSettles ==
    \A p \in Procs, q \in Procs :
        (p # q /\ conns[p].code = conns[q].code /\ conns[p].outcome = "OK")
            => conns[q].outcome # "OK"

\* C5: settlement is all-or-nothing in the committed database: an order is
\* delivered iff its delivered_at is stamped iff it has a treasury row, and every
\* product's stock is the initial stock less the snapshot quantities of the
\* orders' treasury rows; a settlement that fails at any statement shows nothing.
C5_AllOrNothing ==
    /\ \A i \in 1..Len(orders) :
          /\ (orders[i].status = "delivered") <=> (SaleCount(treasury, orders[i].id) > 0)
          /\ (orders[i].delivered_at # None) <=> (SaleCount(treasury, orders[i].id) > 0)
    /\ \A p \in ProductIds :
          products[p].stock + QtyOf(ConcOrders[1].items, p) * SaleCount(treasury, 1)
                            + QtyOf(ConcOrders[2].items, p) * SaleCount(treasury, 2)
              = ConcStock[p]

\* a settlement raised after its last write, before commit, and nothing of it shows
C5_Witness ==
    /\ \E p \in Procs : conns[p].outcome = "RAISED" /\ conns[p].at = "commit"
    /\ \A q \in Procs : conns[q].pc = "idle"
    /\ treasury = <<>>
    /\ orders = ConcOrders

\* C6: no checkout path inserts an order one of whose lines asks for more than
\* the product's stock at that moment: the chat commit compares every line with
\* the stock in the step that inserts, and the mini-app handler never reaches its
\* INSERT on a web_app_data message.
C6_NoOrderBeyondStock ==
    [][Len(orders') > Len(orders) =>
          LET o == orders'[Len(orders')] IN
          \A k \in 1..Len(o.items) :
              LineQty(o.items[k]) <= products[LineId(o.items[k])].stock]_vars

\* the one order was settled and took the last unit; the customer filled the
\* cart again and the commit has just been refused, with no second order
C6_Witness ==
    /\ last.op = "checkout_finalize" /\ last.ret = "INSUFFICIENT_STOCK"
    /\ \E p \in ProductIds : carts[last.user][p] > products[p].stock
    /\ Len(orders) = 1 /\ orders[1].status = "delivered"

\* C7: when checkout_finalize ends on insufficient stock or on an uncovered zone,
\* no order row is created, every cart is as it was and the caller's checkout
\* session is discarded.
C7_FailedCommitKeepsCart ==
    [][(last'.op = "checkout_finalize" /\ last'.ret \in {"INSUFFICIENT_STOCK", "UNCOVERED_ZONE"})
          => /\ orders' = orders
             /\ carts' = carts
             /\ \E chat \in Chats :
                    /\ fsm[chat, last'.user].state = "waiting_promo"
                    /\ fsm'[chat, last'.user] = NoSession]_vars

\* a commit has just failed on stock, the cart still holds its line
C7_Witness ==
    /\ last.op = "checkout_finalize" /\ last.ret = "INSUFFICIENT_STOCK"
    /\ get_cart(last.user) # <<>>
    /\ fsm[PrivateChat(last.user), last.user] = NoSession

\* C8: a successful settlement of an order in any non-delivered status lowers each
\* product's stock by the snapshot's quantity of it (products not in the snapshot
\* keep theirs), sets status delivered with delivered_at stamped, and appends
\* exactly one treasury 'sale' row of the order's total.
C8_SettlementEffects ==
    [][(last'.op = "delivered" /\ last'.ret = "OK")
          => \E i \in 1..Len(orders) :
                /\ orders[i].code = last'.code
                /\ orders[i].status # "delivered"
                /\ \A p \in ProductIds :
                      products'[p] = [products[p] EXCEPT
                                         !.stock = products[p].stock - QtyOf(orders[i].items, p)]
                /\ orders' = [orders EXCEPT ![i].status = "delivered",
                                            ![i].delivered_at = Some("now")]
                /\ treasury' = Append(treasury, [order_id |-> orders[i].id,
                                                 entry_type |-> "sale",
                                                 amount |-> orders[i].total])]_vars

\* an order that had been assigned to a courier has just been settled
C8_Witness ==
    /\ last.op = "delivered" /\ last.ret = "OK"
    /\ \E i \in 1..Len(orders) :
          /\ orders[i].code = last.code
          /\ orders[i].status = "delivered"
          /\ orders[i].courier_user_id # None
          /\ SaleCount(treasury, orders[i].id) = 1

\* C9: every persisted order has total = max(0, subtotal - discount) + delivery_fee,
\* hence total >= delivery_fee, whichever checkout path created it.
C9_TotalFormula ==
    \A i \in 1..Len(orders) :
        LET o == orders[i]
            net == IF o.subtotal - o.discount > 0 THEN o.subtotal - o.discount ELSE 0
        IN o.total = net + o.delivery_fee /\ o.total >= o.delivery_fee

\* a chat order whose discount exceeds its subtotal (the clamp applies: its
\* total is the delivery fee) beside an order without a discount
C9_Witness ==
    \E i \in 1..Len(orders), j \in 1..Len(orders) :
        /\ orders[i].discount > orders[i].subtotal
        /\ DictsOnly(orders[i].items)
        /\ orders[i].total = orders[i].delivery_fee
        /\ orders[j].discount = 0
        /\ orders[j].total = orders[j].subtotal + orders[j].delivery_fee

\* C10: /assign on an order whose status is neither pending nor assigned is
\* rejected and leaves the order as it was, so a delivered order stays delivered.
\* set_order_assigned has no status condition: violated.
C10_AssignOnlyFromPendingOrAssigned ==
    [][last'.op = "assign"
          => \A i \in 1..Len(orders) :
                orders[i].status \notin {"pending", "assigned"} => orders'[i] = orders[i]]_vars

\* C11: /assign by an admin with a code that matches no order answers
\* ORDER_NOT_FOUND, not success, and changes no order.  cmd_assign answers
\* success whatever UPDATE matched: violated.
C11_AssignUnknownCodeReported ==
    [][(last'.op = "assign" /\ last'.ret # "UNAUTHORIZED"
            /\ \A i \in 1..Len(orders) : orders[i].code # last'.code)
          => (last'.ret = "ORDER_NOT_FOUND" /\ orders' = orders)]_vars

\* C12: a commit that passes the cart, stock and zone checks persists an order
\* even when the code gen_code() drew is already in the table (a fresh code is
\* drawn), and all persisted codes are pairwise distinct.  The code is inserted
\* as drawn and the UNIQUE constraint makes the INSERT raise: violated.
C12_CollisionRegenerated ==
    [][(last'.op = "checkout_finalize"
            /\ last'.ret \notin {"EMPTY_CART", "INSUFFICIENT_STOCK", "UNCOVERED_ZONE"})
          => /\ Len(orders') = Len(orders) + 1
             /\ \A i \in 1..Len(orders'), j \in 1..Len(orders') :
                    orders'[i].code = orders'[j].code => i = j]_vars

\* the order row with the given code
OrderOf(code) == orders[CHOOSE i \in 1..Len(orders) : orders[i].code = code]

\* C13: a cart line the customer adds while their own checkout is in progress is
\* never lost: when the commit finishes, every line the cart held is in the
\* committed order's snapshot or still in the cart.  clear_cart deletes every row
\* of the user after the await, also the rows added meanwhile: violated.
C13_NoLineLostDuringCheckout ==
    [][\A t \in tasks \ tasks' : \A p \in ProductIds :
          carts[t.user][p] > 0 =>
              (carts'[t.user][p] > 0 \/ QtyOf(OrderOf(t.code).items, p) > 0)]_vars

\* the spellings of the free zone among the cities fees are computed for
FreeZoneSpellings == {"Millau", " millau ", "MILLAU"}

\* the tiers of the stored schedule that cover a distance
Covering(distance) == {i \in 1..Len(fees.tiers) : distance <= 10 * fees.tiers[i].max_km}

\* C14: for a city outside the free zone and a covered distance, the fee is the
\* fee of the first tier, in ascending order of max distance, whose max distance
\* is >= the distance; with the default tiers 15 km costs 20, 20 km costs 20 and
\* 25 km costs 30.
C14_FirstCoveringTier ==
    /\ \A i \in 1..Len(fees.tiers), j \in 1..Len(fees.tiers) :
          i <= j => fees.tiers[i].max_km <= fees.tiers[j].max_km
    /\ (last.op = "compute_delivery_fee" /\ last.code \notin FreeZoneSpellings
            /\ Covering(last.distance) # {})
          => /\ last.ret = "OK"
             /\ \E i \in Covering(last.distance) :
                   /\ \A j \in Covering(last.distance) : i <= j
                   /\ last.fee = fees.tiers[i].fee
    /\ (last.op = "compute_delivery_fee" /\ last.code = "Paris"
            /\ fees.tiers = DEFAULT_TIERED_FEES)
          => /\ last.distance = 150 => last.fee = 20
             /\ last.distance = 200 => last.fee = 20
             /\ last.distance = 250 => last.fee = 30

\* a fee has just been computed for a distance on the bound of the first of two
\* tiers the admin installed in descending order
C14_Witness ==
    /\ last.op = "compute_delivery_fee" /\ last.code = "Paris" /\ last.distance = 200
    /\ fees.tiers = <<[max_km |-> 20, fee |-> 30], [max_km |-> 30, fee |-> 20]>>
    /\ last.fee = 30

\* C15: for a city outside the free zone and a distance beyond the last tier's
\* max distance the computation fails with the uncovered-zone error, whatever
\* per_km the stored schedule holds.
C15_BeyondLastTierUncovered ==
    /\ (last.op = "compute_delivery_fee" /\ last.code \notin FreeZoneSpellings
            /\ last.distance > 10 * fees.tiers[Len(fees.tiers)].max_km)
          => last.ret = "UNCOVERED_ZONE"
    /\ \A pk \in PerKmValues, city \in FeeCities \ FreeZoneSpellings, d \in FeeDistances :
          d > 10 * fees.tiers[Len(fees.tiers)].max_km
              => ~DeliveryFee(set_fees(fees.tiers, pk), city, d).ok

\* 42 km has just been refused under an installed schedule that ends at 30 km
C15_Witness ==
    /\ last.op = "compute_delivery_fee" /\ last.code = "Paris" /\ last.distance = 420
    /\ fees.tiers[Len(fees.tiers)].max_km = 30
    /\ last.ret = "UNCOVERED_ZONE"

\* C16: a city that is 'Millau' once trimmed and compared without case costs 0
\* at every distance, also beyond the last tier, and never fails.
C16_FreeZone ==
    (last.op = "compute_delivery_fee" /\ last.code \in FreeZoneSpellings)
        => (last.ret = "OK" /\ last.fee = 0)

\* the fee of 'MILLAU' at 51 km has just been computed
C16_Witness ==
    /\ last.op = "compute_delivery_fee" /\ last.code = "MILLAU" /\ last.distance = 510
    /\ last.ret = "OK"

\* C17: under every schedule /set_fees can install, the fee of a city outside
\* the free zone does not decrease with the distance over the covered range.
\* /set_fees stores any fees, also decreasing ones: violated.
C17_FeeMonotone ==
    \A d1 \in FeeDistances, d2 \in FeeDistances :
        (d1 <= d2 /\ d2 <= 10 * fees.tiers[Len(fees.tiers)].max_km)
            => compute_delivery_fee("Paris", d1).fee <= compute_delivery_fee("Paris", d2).fee

\* C18: the checkout button on an empty cart answers the empty-cart outcome,
\* enters no checkout state and creates no order; a commit that finds the cart
\* empty creates no order and clears the caller's session.
C18_EmptyCartAborts ==
    [][/\ (last'.op = "checkout" /\ get_cart(last'.user) = <<>>)
            => (last'.ret = "EMPTY_CART" /\ fsm' = fsm /\ orders' = orders)
       /\ (last'.op = "checkout_finalize" /\ get_cart(last'.user) = <<>>)
            => /\ last'.ret = "EMPTY_CART"
               /\ orders' = orders
               /\ \E chat \in Chats :
                      /\ fsm[chat, last'.user].state = "waiting_promo"
                      /\ fsm'[chat, last'.user] = NoSession
                      /\ \A k \in DOMAIN fsm : k # <<chat, last'.user>> => fsm'[k] = fsm[k]]_vars

\* a commit has just found the cart empty: the checkout the customer ran from the
\* other chat had committed it meanwhile
C18_Witness ==
    /\ last.op = "checkout_finalize" /\ last.ret = "EMPTY_CART"
    /\ Len(orders) = 1
    /\ \A chat \in Chats : fsm[chat, last.user] = NoSession

\* the distance (tenths of a kilometre) each numeric text of the prompt stands for
DistanceRead == [t \in {"15", "20,5", "51"} |-> IF t = "15" THEN 150 ELSE IF t = "20,5" THEN 205 ELSE 510]

\* C19: at the distance prompt a non-numeric text leaves every session as it was
\* (same step, same address, city and distance), and a numeric text, decimal
\* comma included, stores the distance and moves the session to the promo step.
C19_DistancePrompt ==
    [][last'.op = "checkout_distance"
          => /\ last'.code \in {"abc", ""} => (last'.ret = "INVALID_INPUT" /\ fsm' = fsm)
             /\ last'.code \in DOMAIN DistanceRead =>
                   /\ last'.ret = "OK"
                   /\ \E chat \in Chats :
                         /\ fsm[chat, last'.user].state = "waiting_distance"
                         /\ fsm' = [fsm EXCEPT
                                       ![chat, last'.user].state = "waiting_promo",
                                       ![chat, last'.user].data.distance_km =
                                            <<DistanceRead[last'.code]>>]]_vars

\* a distance typed with a decimal comma has just been stored
C19_Witness ==
    /\ last.op = "checkout_distance" /\ last.code = "20,5" /\ last.ret = "OK"
    /\ fsm[PrivateChat(last.user), last.user].state = "waiting_promo"
    /\ fsm[PrivateChat(last.user), last.user].data.distance_km = <<205>>

\* C20: at the address and city prompts a text that is empty once trimmed is
\* rejected and the session stays at the prompt, so no session and no persisted
\* order holds an empty address or city.  Both handlers store the trimmed text
\* and move on: violated.
C20_NoEmptyAddressOrCity ==
    /\ \A k \in DOMAIN fsm : fsm[k].data.address # <<"">> /\ fsm[k].data.city # <<"">>
    /\ \A i \in 1..Len(orders) : orders[i].address # "" /\ orders[i].city # ""

\* the cart lines of a user: product id, name, unit price and quantity
CartLines(u) ==
    {[id |-> p, name |-> products[p].name, price |-> products[p].price, qty |-> carts[u][p]] :
        p \in {q \in ProductIds : carts[u][q] > 0}}

\* C21: a successful commit persists exactly one new order, pending, without
\* courier or delivery time, whose snapshot holds exactly the cart lines of the
\* customer as read at the commit; when the commit completes that customer's
\* cart is empty and every other cart is as it was.
C21_CommitPersistsOneOrder ==
    [][/\ (last'.op = "checkout_finalize" /\ last'.ret = "NOTIFYING")
            => /\ Len(orders') = Len(orders) + 1
               /\ SubSeq(orders', 1, Len(orders)) = orders
               /\ LET o == orders'[Len(orders')] IN
                     /\ o.status = "pending"
                     /\ o.courier_user_id = None
                     /\ o.delivered_at = None
                     /\ o.user_id = last'.user
                     /\ {o.items[k] : k \in 1..Len(o.items)} = CartLines(last'.user)
                     /\ Len(o.items) = Cardinality(CartLines(last'.user))
               /\ carts' = carts
       /\ (last'.op = "checkout_finalize" /\ last'.ret = "OK")
            => /\ orders' = orders
               /\ \A p \in ProductIds : carts'[last'.user][p] = 0
               /\ \A v \in Users : v # last'.user => carts'[v] = carts[v]]_vars

\* a two-line cart has just been committed while another shopper holds a cart
C21_Witness ==
    /\ last.op = "checkout_finalize" /\ last.ret = "OK"
    /\ Len(orders) = 1 /\ Len(orders[1].items) = 2 /\ orders[1].user_id = last.user
    /\ \A p \in ProductIds : carts[last.user][p] = 0
    /\ \E v \in Users : v # last.user /\ carts[v][1] > 0

\* C22: with a courier channel configured, when the notification of a committed
\* order fails (the commit resumes and the channel holds no new message), the
\* orders table is as it was and holds the order, the customer's cart is empty,
\* the session is over and the customer is answered the confirmation, on the
\* chat checkout and on the mini-app checkout; and a mini-app step that commits
\* an order answers the confirmation or is suspended at its notification.
C22_NotifyFailureStillSuccess ==
    [][/\ \A t \in tasks \ tasks' :
             notified' = notified
                => /\ orders' = orders
                   /\ CodeTaken(t.code)
                   /\ \A p \in ProductIds : carts'[t.user][p] = 0
                   /\ fsm'[t.chat, t.user] = NoSession
                   /\ last'.op \in {"checkout_finalize", "handle_webapp"}
                   /\ last'.user = t.user /\ last'.ret = "OK"
       /\ (last'.op = "handle_webapp" /\ Len(orders') > Len(orders))
             => /\ SubSeq(orders', 1, Len(orders)) = orders
                /\ last'.ret \in {"OK", "NOTIFYING"}]_vars

\* the notification of the one order failed: the channel is empty, no commit is
\* suspended, the order is there, the cart is empty and the customer was confirmed
C22_Witness ==
    /\ last.op = "checkout_finalize" /\ last.ret = "OK"
    /\ Len(orders) = 1 /\ orders[1].user_id = last.user /\ orders[1].status = "pending"
    /\ notified = {} /\ tasks = {}
    /\ \A p \in ProductIds : carts[last.user][p] = 0
    /\ fsm[PrivateChat(last.user), last.user] = NoSession

\* C23: no operation changes the item snapshot or the subtotal, discount,
\* delivery fee and total of an order that exists: not an edit of a product's
\* name, price or stock, not a deactivation, not a new fee schedule, not an
\* assignment and not a settlement; and no order disappears.
C23_SnapshotImmutable ==
    [][/\ Len(orders') >= Len(orders)
       /\ \A i \in 1..Len(orders) :
             /\ orders'[i].items = orders[i].items
             /\ orders'[i].subtotal = orders[i].subtotal
             /\ orders'[i].discount = orders[i].discount
             /\ orders'[i].delivery_fee = orders[i].delivery_fee
             /\ orders'[i].total = orders[i].total]_vars

\* the order is assigned and settled after its product was renamed, repriced and
\* deactivated and the fee schedule replaced: it still holds what it was created with
C23_Witness ==
    /\ orders[1].status = "delivered" /\ orders[1].courier_user_id # None
    /\ products[1].name # orders[1].items[1].name
    /\ products[1].price # orders[1].items[1].price
    /\ ~products[1].is_active
    /\ fees.tiers # DEFAULT_TIERED_FEES
    /\ orders[1].items = AdminOrders[1].items /\ orders[1].total = AdminOrders[1].total

\* C24: a checkout started while an earlier checkout of the customer is still
\* collecting discards what the earlier session stored: after the button the
\* session is at the address prompt with no address, city or distance.
\* cb_checkout sets the state and keeps the stored data: violated.
C24_NewCheckoutDiscardsStale ==
    [][(last'.op = "checkout" /\ last'.ret = "OK")
          => \E chat \in Chats :
                fsm' = [fsm EXCEPT ![chat, last'.user] =
                                       [state |-> "waiting_address", data |-> NoData]]]_vars

\* who holds the admin role, and who holds staff or admin, in the current state
HoldsAdmin(u) == u = OWNER_ID \/ users[u] = "admin"
HoldsStaff(u) == u = OWNER_ID \/ users[u] \in {"staff", "admin"}
\* the handlers that write for an admin, and those that write or export for staff
AdminOps == {"set_fees", "set_role", "assign", "admin_add_photo", "admin_edit_apply",
             "admin_delete_product_confirm", "admin_reactivate_product_confirm"}
StaffOps == {"add_product", "delivered", "export_ca"}

\* C25: an admin mutation runs only for a caller who holds the required role in
\* the state it runs in: /set_fees, /set_role, /assign and the panel's add, edit,
\* deactivate and reactivate need admin; /add_product, /delivered and the export
\* need staff or admin.  A caller without the role is refused and no role,
\* product, order, treasury row or fee schedule changes; nothing else writes them.
C25_RoleCheckedAtExecution ==
    [][/\ (last'.op \in AdminOps /\ ~HoldsAdmin(last'.user))
            => /\ last'.ret = "UNAUTHORIZED"
               /\ UNCHANGED <<users, products, orders, treasury, fees>>
       /\ (last'.op \in StaffOps /\ ~HoldsStaff(last'.user))
            => /\ last'.ret = "UNAUTHORIZED"
               /\ UNCHANGED <<users, products, orders, treasury, fees>>
       /\ <<users, products, orders, treasury, fees>>' # <<users, products, orders, treasury, fees>>
            => last'.op \in AdminOps \cup StaffOps]_vars

\* user 2 opened the add dialogue as an admin, replaced the fee schedule, was
\* demoted, and has just answered the last prompt: refused, no product added
C25_Witness ==
    /\ last.op = "admin_add_photo" /\ last.ret = "UNAUTHORIZED"
    /\ users[last.user] # "admin" /\ last.user # OWNER_ID
    /\ fees.tiers # DEFAULT_TIERED_FEES
    /\ DOMAIN products = ProductIds
    /\ fsm[PrivateChat(last.user), last.user] = NoSession

\* the handlers of the two checkouts (chat dialogue and mini-app) and of the cart
CheckoutOps == {"addcart", "checkout", "checkout_address", "checkout_city",
                "checkout_distance", "checkout_finalize", "handle_webapp"}

\* C26: no step of a checkout, a successful commit included, changes the stock
\* of a product; a stock goes down only in a settlement (/delivered), or when an
\* admin types a lower absolute value into the edit dialogue.
C26_CheckoutKeepsStock ==
    [][/\ last'.op \in CheckoutOps
            => \A p \in ProductIds : products'[p].stock = products[p].stock
       /\ (\E p \in ProductIds : products'[p].stock < products[p].stock)
            => last'.op \in {"delivered", "admin_edit_apply"}]_vars

\* a cart has just been committed as an order and the stock is what it was at
\* the start
C26_Witness ==
    /\ last.op = "checkout_finalize" /\ last.ret = "OK"
    /\ Len(orders) = 1 /\ orders[1].items # <<>>
    /\ \A k \in 1..Len(orders[1].items) : orders[1].items[k].qty > 0
    /\ \A p \in ProductIds : products[p].stock = InitProducts[p].stock
    /\ treasury = <<>>

\* C27: an order row is created only by the commit of the chat checkout, out of
\* the promo step of a session that holds the address, the city and the distance
\* its earlier steps stored; no other handler inserts an order (the mini-app
\* handler never reaches its INSERT on a web_app_data message).
C27_OrdersOnlyFromPromoCommit ==
    [][Len(orders') > Len(orders)
          => /\ last'.op = "checkout_finalize"
             /\ \E chat \in Chats :
                   /\ fsm[chat, last'.user].state = "waiting_promo"
                   /\ fsm[chat, last'.user].data.address # None
                   /\ fsm[chat, last'.user].data.city # None
                   /\ fsm[chat, last'.user].data.distance_km # None]_vars

\* an order has just been committed out of the promo step, with the promo code
\* typed there and the address and the city the earlier prompts stored
C27_Witness ==
    /\ last.op = "checkout_finalize" /\ last.ret = "OK"
    /\ Len(orders) = 1 /\ orders[1].user_id = last.user
    /\ orders[1].address \in Addresses /\ orders[1].city \in Cities
    /\ orders[1].status = "pending" /\ orders[1].discount = PROMO_BONUS

\* C28: after any sequence of /set_fees commands the stored tiers are sorted on
\* strictly increasing bounds: no two tiers share a max distance.  /set_fees
\* sorts the chunks it parsed and stores them, duplicates included: violated.
C28_TiersStrictlyIncreasing ==
    \A i \in 1..(Len(fees.tiers) - 1) : fees.tiers[i].max_km < fees.tiers[i + 1].max_km

\* C29: get_cart lists only the cart lines whose product is active: a line of a
\* deactivated product is left out.  get_cart joins each cart row with its
\* product whatever is_active says: violated.
C29_CartOmitsInactive ==
    \A u \in Users : \A k \in 1..Len(get_cart(u)) : products[get_cart(u)[k].id].is_active

\* the units of product p in the snapshots of the orders the treasury rows
\* from + 1 .. Len(tr) name
RECURSIVE SoldSince(_, _, _)
SoldSince(tr, p, from) ==
    IF from >= Len(tr) THEN 0
    ELSE QtyOf(ConcOrders[tr[from + 1].order_id].items, p) + SoldSince(tr, p, from + 1)

\* C30: concurrent settlements lose no debit, and an admin's absolute stock
\* value is written wholly before or wholly after each settlement: in the
\* committed database a product's stock is the last value an admin set (the
\* initial stock if none) less the snapshot quantities of every settlement
\* committed since, in every interleaving.
C30_NoLostStockUpdate ==
    \A p \in ProductIds :
        LET set == last.op = "set_stock_absolute" /\ last.pid = p
            base == IF set THEN last.stock ELSE ConcStock[p]
            from == IF set THEN last.sales ELSE 0
        IN products[p].stock = base - SoldSince(treasury, p, from)

\* the two orders, which share product 1, were settled by the two connections
\* and the admin set the stock of product 1 between the two commits
C30_Witness ==
    /\ conns["p1"].outcome = "OK" /\ conns["p2"].outcome = "OK"
    /\ conns["p1"].code # conns["p2"].code
    /\ \A q \in Procs : conns[q].pc = "idle"
    /\ Len(treasury) = 2 /\ treasury[1].order_id # treasury[2].order_id
    /\ last.op = "set_stock_absolute" /\ last.ret = "OK" /\ last.sales = 1
    /\ products[last.pid].stock = last.stock - 1

\* C31: one checkout session yields at most one order: while a commit of the
\* customer is suspended at the notification of the courier channel, its cart
\* and session not yet cleared, no second order is inserted for that customer.
\* The dispatcher runs the customer's next promo message meanwhile; it finds the
\* session still at the promo step and the cart still full: violated.
C31_OneOrderPerSession ==
    [][Len(orders') > Len(orders) => ~\E t \in tasks : t.user = last'.user]_vars

\* the sum of the 'sale' amounts of the treasury, and of the totals of the
\* delivered orders
RECURSIVE SumSales(_)
SumSales(tr) ==
    IF tr = <<>> THEN 0
    ELSE (IF Head(tr).entry_type = "sale" THEN Head(tr).amount ELSE 0) + SumSales(Tail(tr))

RECURSIVE SumDelivered(_)
SumDelivered(ords) ==
    IF ords = <<>> THEN 0
    ELSE (IF Head(ords).status = "delivered" THEN Head(ords).total ELSE 0)
            + SumDelivered(Tail(ords))

\* C32: in every reachable state an order has a treasury 'sale' row iff it is
\* delivered, its delivered_at is set iff it is delivered, and the 'sale' amounts
\* add up to the totals of the delivered orders.  /assign on a delivered order
\* sets it back to assigned, its sale row and delivered_at staying: violated.
C32_LedgerConsistent ==
    /\ \A i \in 1..Len(orders) :
          /\ (SaleCount(treasury, orders[i].id) > 0) <=> (orders[i].status = "delivered")
          /\ (orders[i].delivered_at # None) <=> (orders[i].status = "delivered")
    /\ SumSales(treasury) = SumDelivered(orders)

=============================================================================
